---- MODULE Spec2Model ----
(***************************************************************************)
(* A model of the RFx dashboard front end: the step classification of the  *)
(* Dashboard, Clarifications and ArchitectureDiagram components, the       *)
(* per-role artifact loading, the processRFP pipeline call with its        *)
(* simulated progress, and the rendering of pricing and clarification      *)
(* payloads.                                                               *)
(*                                                                         *)
(* toLowerCase, endsWith and includes are computed character by character, *)
(* as the code computes them.                                              *)
(***************************************************************************)
EXTENDS Integers, Sequences, FiniteSets, TLC

VARIABLES
  \* ---- step classification (Dashboard / Clarifications / ArchitectureDiagram)
  steps,          \* the steps list being classified
  binding,        \* role -> index of the step bound to it (0: none)
  cpc,            \* "idle" | "input" | "classified"
  \* ---- Dashboard component state (useState, ChatAgent.js:80-93)
  selectedFile,   \* a file is selected
  processing,
  progress,       \* {step, message, progress}
  results,        \* Null (null) or a pipeline response
  error,
  sowKey,
  pricingData,
  pricingLoading,
  pricingError,
  architectureKey,
  \* ---- the browser around it
  route,          \* the path the router shows
  cache,          \* localStorage item rfx_results: Null or a string
  locationState,  \* location.state?.results of the screen shown
  \* ---- the session (App.js) and the Login form
  user,           \* App's user: Null or [email]
  email,          \* Login's email field
  loginError,     \* Login's error message
  \* ---- one processRFP call and its simulated progress (awsService.js)
  rfpPc,          \* "idle" | "uploading" | "invoking"
  simCurrent,     \* startSimulatedProgress: current
  simStopped,     \* startSimulatedProgress: stopped
  simTimer,       \* the setInterval is registered and not cleared
  reports,        \* the onProgress calls of this processRFP call, in order
  outcome,        \* how the last handleUpload ended: "none" | "success" |
                  \* "uploadFailed" | "invokeFailed"
  invocations,    \* handleUpload runs started so far
  detached,       \* handleUpload runs still awaiting processRFP whose Dashboard
                  \* has unmounted
  received,       \* what the last Lambda call came back with
  \* ---- the Dashboard's loads of role artifacts (ChatAgent.js:100-156,
  \*      251-332, 734-761) and the object store they read
  env,            \* what the store answers: per lookup "found" | "none" |
                  \* "rejects", per fetch "ok" | "rejects", the error message
  latestPc,       \* loadLatestFiles: the await it is at, "idle" | "done"
  refreshPc,      \* the Refresh Files handler: the await it is at, "idle"
  stepFetch,      \* the results effect's pricing fetch: "idle" | "inflight" | "done"
  fetchFailures,  \* artifact fetches that have failed so far
  refreshes,      \* Refresh Files clicks so far
  signed,         \* the getPresignedS3Url calls made: the key and what made it
  \* ---- rendering of a fetched payload
  payload,        \* the JSON value fetched
  rendered,       \* what renderPricingTable makes of it, NotRendered before
  processed,      \* what processClarifications makes of it, NotProcessed before
  drawn,          \* what the ArchitectureDiagram component draws of it
  \* ---- Clarifications screen
  clarResults,    \* the results memo of the screen
  continuing,     \* useState continuing: Continue was pressed on this screen
  navTimers,      \* the timers handleContinue has set that have not fired:
                  \* the results each will navigate with, oldest first
  clarLoading,    \* useState loading
  clarError,      \* useState error, '' for none
  questions,      \* useState questions
  loaders,        \* each loadClarifications call: where it waits, how it ended
  curRun,         \* the loadClarifications call of the current results, 0 before mount
  resumed         \* the call the last step resumed, 0 when the step was no resumption

classifyVars == <<steps, binding, cpc>>

dashboardVars == <<selectedFile, processing, progress, results, error>>

roleVars == <<sowKey, pricingData, pricingLoading, pricingError, architectureKey>>

browserVars == <<route, cache, locationState>>

sessionVars == <<user, email, loginError>>

rfpVars == <<rfpPc, simCurrent, simStopped, simTimer, reports, outcome, invocations,
             detached,
             received>>

loadVars == <<env, latestPc, refreshPc, stepFetch, fetchFailures, refreshes, signed>>

renderVars == <<payload, rendered, processed, drawn>>

clarVars == <<clarResults, continuing, navTimers, clarLoading, clarError, questions, loaders,
              curRun, resumed>>

vars == <<classifyVars, dashboardVars, roleVars, browserVars, sessionVars, rfpVars, loadVars,
          renderVars, clarVars>>

----------------------------------------------------------------------------
(* JavaScript strings *)

\* `undefined` (a missing field): a value that is none of the strings met
Undefined == "<undefined>"

\* the empty string ''
Empty == ""

\* JavaScript truthiness of a string-or-undefined value
Truthy(s) == s # Undefined /\ s # Empty

\* (s || '')
OrEmpty(s) == IF Truthy(s) THEN s ELSE Empty

\* String.prototype.toLowerCase
RECURSIVE ToLower(_)
ToLower(s) ==
  IF s = "" THEN ""
  ELSE LET upper == "ABCDEFGHIJKLMNOPQRSTUVWXYZ"
           lower == "abcdefghijklmnopqrstuvwxyz"
           at == { i \in 1..Len(upper) : SubSeq(upper, i, i) = Head(s) }
       IN (IF at = {} THEN Head(s)
           ELSE SubSeq(lower, CHOOSE i \in at : TRUE, CHOOSE i \in at : TRUE))
            \o ToLower(Tail(s))

\* String.prototype.endsWith
EndsWith(s, suffix) ==
  /\ Len(s) >= Len(suffix)
  /\ SubSeq(s, Len(s) - Len(suffix) + 1, Len(s)) = suffix

\* String.prototype.includes
Includes(s, sub) ==
  \E i \in 1..(Len(s) - Len(sub) + 1) : SubSeq(s, i, i + Len(sub) - 1) = sub

----------------------------------------------------------------------------
(* Step records a pipeline result may carry: {step, output} *)

StepPool ==
  { [step |-> "RFx Parsing",          output |-> "p.json"],
    [step |-> "Pricing",              output |-> "e.JSON"],
    [step |-> "Architecture Diagram", output |-> "a.png"],
    [step |-> "Architecture Diagram", output |-> "a.json"],
    [step |-> "SOW Draft",            output |-> "s.docx"],
    [step |-> "Summary",              output |-> "r.pdf"],
    [step |-> "Clarifications",       output |-> "c.json"],
    [step |-> "Summary",              output |-> Undefined],
    [step |-> Undefined,              output |-> "price.json"],
    [step |-> "Draft",                output |-> "statement of work.pdf"] }

\* longest steps list enumerated
MaxSteps == 3

StepLists == UNION { [1..n -> StepPool] : n \in 0..MaxSteps }

----------------------------------------------------------------------------
(* Array.prototype.find as the index of the first match, 0 for undefined *)

FirstIndex(I) == IF I = {} THEN 0 ELSE CHOOSE x \in I : \A y \in I : x <= y

\* a || b on two find results
OrElse(a, b) == IF a # 0 THEN a ELSE b

\* Dashboard results effect: the SOW heuristics
SowStep(ss) ==
  LET name(s) == ToLower(OrEmpty(s.step))
      out(s) == ToLower(OrEmpty(s.output))
      isDoc(s) == EndsWith(out(s), ".docx") \/ EndsWith(out(s), ".pdf")
      named(s) == isDoc(s) /\ (Includes(name(s), "sow")
                                 \/ Includes(name(s), "statement of work")
                                 \/ Includes(out(s), "sow"))
      anyDoc(s) == Truthy(out(s)) /\ isDoc(s)
  IN OrElse(FirstIndex({ i \in 1..Len(ss) : named(ss[i]) }),
            FirstIndex({ i \in 1..Len(ss) : anyDoc(ss[i]) }))

\* Dashboard results effect: the pricing heuristics
PricingStep(ss) ==
  LET name(s) == ToLower(OrEmpty(s.step))
      out(s) == ToLower(OrEmpty(s.output))
      looksJson(s) == EndsWith(out(s), ".json")
      mentionsPricing(s) == Includes(name(s), "pricing") \/ Includes(out(s), "pricing")
                              \/ Includes(out(s), "price")
      anyJson(s) == Truthy(out(s)) /\ EndsWith(out(s), ".json")
  IN OrElse(FirstIndex({ i \in 1..Len(ss) : looksJson(ss[i]) /\ mentionsPricing(ss[i]) }),
            FirstIndex({ i \in 1..Len(ss) : anyJson(ss[i]) }))

\* Dashboard results effect: the architecture heuristics
ArchitectureStep(ss) ==
  LET name(s) == ToLower(OrEmpty(s.step))
      out(s) == ToLower(OrEmpty(s.output))
      isPng(s) == EndsWith(out(s), ".png")
      mentionsArchitecture(s) ==
        Includes(name(s), "architecture") \/ Includes(name(s), "diagram")
          \/ Includes(out(s), "architecture") \/ Includes(out(s), "diagram")
  IN FirstIndex({ i \in 1..Len(ss) : isPng(ss[i]) /\ mentionsArchitecture(ss[i]) })

\* ArchitectureDiagram effect: an exact step name and a case-sensitive .json
ArchitectureJsonStep(ss) ==
  FirstIndex({ i \in 1..Len(ss) :
                 /\ ss[i].step = "Architecture Diagram"
                 /\ Truthy(ss[i].output)
                 /\ EndsWith(ss[i].output, ".json") })

\* Clarifications.loadClarifications: the clarification heuristics
ClarStep(ss) ==
  LET name(s) == ToLower(OrEmpty(s.step))
      out(s) == ToLower(OrEmpty(s.output))
      named(s) == EndsWith(out(s), ".json")
                    /\ (Includes(name(s), "clarification")
                          \/ Includes(out(s), "clarification"))
  IN OrElse(FirstIndex({ i \in 1..Len(ss) : named(ss[i]) }),
            FirstIndex({ i \in 1..Len(ss) : EndsWith(out(ss[i]), ".json") }))

\* `x && x.output`: the step found has an output to load
Bound(ss, i) == i # 0 /\ Truthy(ss[i].output)

\* the views that bind a step: the Dashboard's SOW, pricing and architecture
\* cards, the Clarifications screen, the ArchitectureDiagram component
Roles == {"sow", "pricing", "architecture", "clarification", "diagram"}

NoBinding == [r \in Roles |-> 0]

\* the step each screen binds to each role for one steps list
Classify(ss) ==
  [r \in Roles |->
     LET i == CASE r = "sow" -> SowStep(ss)
                [] r = "pricing" -> PricingStep(ss)
                [] r = "architecture" -> ArchitectureStep(ss)
                [] r = "clarification" -> ClarStep(ss)
                [] r = "diagram" -> ArchitectureJsonStep(ss)
     IN  IF Bound(ss, i) THEN i ELSE 0]

----------------------------------------------------------------------------
(* JSON values, as res.json() and JSON.parse deliver them *)

JUndef == [t |-> "undefined"]
JNull == [t |-> "null"]
JNaN == [t |-> "nan"]
JBool(b) == [t |-> "boolean", b |-> b]
JNum(n) == [t |-> "number", n |-> n]
JStr(s) == [t |-> "string", s |-> s]
JArr(items) == [t |-> "array", items |-> items]
\* an object: its own properties in insertion order, <<key, value>> each
JObj(entries) == [t |-> "object", entries |-> entries]

----------------------------------------------------------------------------
(* Pipeline responses: what JSON.parse of the Lambda payload gives *)

\* result.statusCode is missing
StatusAbsent == -1

\* JavaScript truthiness of result.statusCode
StatusTruthy(n) == n # StatusAbsent /\ n # 0

\* a string: the text JSON.stringify gives for a value, kept as that value,
\* and a text kept character by character
JsonText(o) == [type |-> "json", of |-> o]
PlainText(t) == [type |-> "text", of |-> t]

\* body: undefined, a string, or an object {steps}
NoBody == [type |-> "undefined"]
StringBody(s) == [type |-> "string", string |-> s]
ObjectBody(o) == [type |-> "object", object |-> o]

\* an object with a steps field, or without one
WithSteps(ss) == [hasSteps |-> TRUE, steps |-> ss]
WithoutSteps == [hasSteps |-> FALSE, steps |-> <<>>]

Response(code, body, top) ==
  [statusCode |-> code, body |-> body, hasSteps |-> top.hasSteps, steps |-> top.steps]

\* the responses the Lambda may return
ResponsePool ==
  { Response(StatusAbsent, NoBody,
             WithSteps(<< [step |-> "RFx Parsing", output |-> "p.json"],
                          [step |-> "Pricing",     output |-> "e.JSON"],
                          [step |-> "SOW Draft",   output |-> "s.docx"] >>)),
    Response(200,
             StringBody(JsonText(WithSteps(
               << [step |-> "Architecture Diagram", output |-> "a.png"] >>))),
             WithoutSteps),
    Response(200, ObjectBody(WithSteps(<<>>)), WithoutSteps),
    Response(200,
             ObjectBody(WithSteps(
               << [step |-> "Clarification Questions", output |-> "c.json"],
                  [step |-> "Pricing", output |-> Undefined],
                  [step |-> "SOW", output |-> "s.docx"] >>)),
             WithoutSteps),
    Response(200, StringBody(PlainText("done")), WithoutSteps),
    Response(500, StringBody(PlainText("Internal error")), WithoutSteps),
    Response(500, StringBody(PlainText("")), WithoutSteps),
    Response(400, NoBody, WithoutSteps) }

\* the messages of the errors lambdaClient.invoke, or the decoding of its
\* payload, may throw
InvokeErrorMessages == {"", "Network failure", "Unexpected token"}

\* a || b on two message strings
OrMessage(a, b) == IF a # "" THEN a ELSE b

\* null: results before a run, pricingData before a load, getItem of a
\* key never stored
Null == [type |-> "null"]
NothingReceived == [type |-> "none"]

\* pricingData: the JSON fetched from a key
Data(key) == [type |-> "data", key |-> key]

\* a slip: the status code is not looked at
InvokeThrowsNothing(result) == ""

\* invokeLambdaFunction's check of the decoded result: the message of the
\* Error it throws, "" when it returns the result
InvokeThrows(result) ==
  IF StatusTruthy(result.statusCode) /\ result.statusCode # 200
    THEN CASE result.body.type = "undefined" -> "Lambda returned error"
           [] result.body.type = "object" -> "[object Object]"
           [] result.body.type = "string" ->
                IF result.body.string.type = "text"
                  THEN OrMessage(result.body.string.of, "Lambda returned error")
                  ELSE "{json}"
    ELSE ""

\* handleUpload: a body that is a string is replaced by its JSON.parse, and
\* left as it is when that throws
NormalizeBody(result) ==
  IF result.body.type = "string" /\ result.body.string.type = "json"
    THEN [result EXCEPT !.body = ObjectBody(result.body.string.of)]
    ELSE result

----------------------------------------------------------------------------
(* startSimulatedProgress, with the options processRFP passes *)

SimStart == 10
SimCeiling == 95
SimMinStep == 1
SimMaxStep == 5

MaxOf(a, b) == IF a >= b THEN a ELSE b
MinOf(a, b) == IF a <= b THEN a ELSE b

\* Math.ceil(n / 10) for n >= 0
CeilTenth(n) == (n + 9) \div 10

\* a slip: the step is not held under maxStep
SimDeltaUnclamped(current) ==
  MaxOf(SimMinStep, CeilTenth(MaxOf(0, SimCeiling - current)))

\* the step the interval callback adds to current
SimDelta(current) ==
  LET distance == MaxOf(0, SimCeiling - current)
      stepBase == MaxOf(SimMinStep, MinOf(SimMaxStep, CeilTenth(distance)))
  IN  MaxOf(SimMinStep, MinOf(SimMaxStep, stepBase))

\* a slip: the step replaces current instead of being added to it
SimAdvanceStepOnly(current) == MinOf(SimDelta(current), SimCeiling)

SimAdvance(current) == MinOf(current + SimDelta(current), SimCeiling)

Report(step, message, p) == [step |-> step, message |-> message, progress |-> p]

NoProgress == Report("", "", 0)

----------------------------------------------------------------------------
(* Dashboard.handleUpload and processRFP *)

\* handleUpload runs modelled
MaxInvocations == 2

\* the percentages httpUploadProgress may report

\* handleFileSelect: a PDF or DOCX is kept, any other type is refused
HandleFileSelect(valid) ==
  /\ route = "/dashboard"
  /\ ~processing
  /\ IF valid
       THEN selectedFile' = TRUE /\ error' = ""
       ELSE error' = "Please select a PDF or DOCX file" /\ UNCHANGED selectedFile
  /\ UNCHANGED <<processing, progress, results, roleVars, browserVars, sessionVars, rfpVars,
                 classifyVars, loadVars, renderVars, clarVars>>

\* handleUpload up to processRFP's first await (the S3 upload)
HandleUpload ==
  /\ route = "/dashboard"
  /\ selectedFile /\ ~processing
  /\ invocations < MaxInvocations
  /\ processing' = TRUE
  /\ error' = ""
  /\ results' = Null
  /\ progress' = Report("upload", "Uploading file...", 0)
  /\ reports' = << Report("upload", "Uploading file...", 0) >>
  /\ rfpPc' = "uploading"
  /\ outcome' = "none"
  /\ invocations' = invocations + 1
  /\ received' = NothingReceived
  /\ UNCHANGED <<selectedFile, roleVars, browserVars, sessionVars, simCurrent, simStopped,
                 simTimer, detached, classifyVars, loadVars, renderVars, clarVars>>

\* uploadFileToS3: an httpUploadProgress event
UploadProgress(p) ==
  /\ rfpPc = "uploading"
  /\ progress.step = "upload" /\ p > progress.progress
  /\ progress' = Report("upload", "Uploading to S3...", p)
  /\ reports' = Append(reports, Report("upload", "Uploading to S3...", p))
  /\ UNCHANGED <<selectedFile, processing, results, error, roleVars, browserVars, sessionVars,
                 rfpPc, simCurrent, simStopped, simTimer, outcome, invocations, detached,
                 received, classifyVars, loadVars, renderVars, clarVars>>

\* the upload is done: processRFP reports it, starts the simulation, which
\* ticks once at once, and invokes the Lambda
UploadDone ==
  /\ rfpPc = "uploading"
  /\ simCurrent' = SimStart
  /\ simStopped' = FALSE
  /\ simTimer' = TRUE
  /\ reports' = reports \o
       << Report("upload", "Upload complete", 100),
          Report("process", "Invoking Bedrock Agent...", 10),
          Report("process", "Processing...", MinOf(SimStart, SimCeiling)) >>
  /\ progress' = Report("process", "Processing...", MinOf(SimStart, SimCeiling))
  /\ rfpPc' = "invoking"
  /\ UNCHANGED <<selectedFile, processing, results, error, roleVars, browserVars, sessionVars,
                 outcome, invocations, detached, received, classifyVars, loadVars,
                 renderVars, clarVars>>

\* handleUpload's catch and finally
UploadCatch(message, how) ==
  /\ error' = OrMessage(message, "Failed to process RFP")
  /\ processing' = FALSE
  /\ progress' = NoProgress
  /\ outcome' = how
  /\ rfpPc' = "idle"

\* the upload fails: uploadFileToS3 throws `Failed to upload: ...`, no
\* simulation was started
UploadFail ==
  /\ rfpPc = "uploading"
  /\ UploadCatch("Failed to upload", "uploadFailed")
  /\ UNCHANGED <<selectedFile, results, roleVars, browserVars, sessionVars, simCurrent,
                 simStopped, simTimer, reports, invocations, detached, received, classifyVars, loadVars,
                 renderVars, clarVars>>

\* the interval callback of startSimulatedProgress
SimTick ==
  /\ simTimer
  /\ IF simStopped
       THEN UNCHANGED <<simCurrent, simTimer, reports, progress>>
       ELSE /\ simCurrent' = SimAdvance(simCurrent)
            /\ reports' = Append(reports, Report("process", "Processing...", simCurrent'))
            /\ progress' = Report("process", "Processing...", simCurrent')
            /\ simTimer' = (simCurrent' < SimCeiling)
  /\ UNCHANGED <<selectedFile, processing, results, error, roleVars, browserVars, sessionVars,
                 rfpPc, simStopped, outcome, invocations, detached, received, classifyVars, loadVars,
                 renderVars, clarVars>>

\* stopSim()
StopSim ==
  /\ simStopped' = TRUE
  /\ simTimer' = FALSE

\* a slip: the catch rethrows without stopping the simulation
InvokeFailedTimerLeft(message) ==
  /\ UploadCatch(message, "invokeFailed")
  /\ UNCHANGED <<selectedFile, results, roleVars, browserVars, sessionVars, simCurrent,
                 simStopped, simTimer, reports, invocations, detached, classifyVars, loadVars,
                 renderVars, clarVars>>

\* processRFP's catch: the simulation is stopped and the error rethrown to
\* handleUpload
InvokeFailed(message) ==
  /\ StopSim
  /\ UploadCatch(message, "invokeFailed")
  /\ UNCHANGED <<selectedFile, results, roleVars, browserVars, sessionVars, simCurrent,
                 reports, invocations, detached, classifyVars, loadVars,
                 renderVars, clarVars>>

\* localStorage.setItem('rfx_results', ...) inside try/catch: the item is
\* written unless the storage refuses it
SetItem(stored, text) == IF stored THEN text ELSE cache

\* the Lambda call returns a result that passes the check: processRFP stops
\* the simulation and reports 100, handleUpload keeps the result, writes it
\* through to the cache and navigates to /clarifications
InvokeSucceeded(result, stored) ==
  /\ StopSim
  /\ reports' = Append(reports, Report("process", "Processing complete!", 100))
  /\ results' = NormalizeBody(result)
  /\ cache' = SetItem(stored, JsonText(NormalizeBody(result)))
  /\ route' = "/clarifications"
  /\ locationState' = NormalizeBody(result)
  /\ selectedFile' = FALSE
  /\ processing' = FALSE
  /\ progress' = NoProgress
  /\ outcome' = "success"
  /\ rfpPc' = "idle"
  /\ UNCHANGED <<error, roleVars, simCurrent, invocations, detached, classifyVars, loadVars,
                 renderVars, clarVars,
                 sessionVars>>

\* lambdaClient.invoke resolves with a decodable payload
LambdaResolve(result, stored) ==
  /\ rfpPc = "invoking"
  /\ received' = [type |-> "result", result |-> result]
  /\ IF InvokeThrows(result) # ""
       THEN InvokeFailed(InvokeThrows(result))
       ELSE InvokeSucceeded(result, stored)

\* lambdaClient.invoke rejects
LambdaReject(message) ==
  /\ rfpPc = "invoking"
  /\ received' = [type |-> "rejected", message |-> message]
  /\ InvokeFailed(message)

\* the Clarifications screen's Back / Dashboard button: a new Dashboard mounts
NavigateDashboard ==
  /\ route = "/clarifications"
  /\ route' = "/dashboard"
  /\ locationState' = JUndef
  /\ selectedFile' = FALSE
  /\ processing' = FALSE
  /\ progress' = NoProgress
  /\ results' = Null
  /\ error' = ""
  /\ UNCHANGED <<roleVars, cache, rfpVars, classifyVars, loadVars,
                 renderVars, clarVars,
                 sessionVars>>

\* the Dashboard unmounts: its state is gone; a handleUpload run that is
\* awaiting processRFP goes on without it, its simulation with it
Unmounted ==
  /\ selectedFile' = FALSE
  /\ processing' = FALSE
  /\ progress' = NoProgress
  /\ results' = Null
  /\ error' = ""
  /\ rfpPc' = "idle"
  /\ simCurrent' = 0
  /\ simStopped' = FALSE
  /\ simTimer' = FALSE
  /\ reports' = <<>>
  /\ outcome' = "none"
  /\ received' = NothingReceived

\* the navbar's Chat with Agent button
LeaveDashboard ==
  /\ route = "/dashboard"
  /\ route' = "/chat"
  /\ Unmounted
  /\ detached' = IF rfpPc # "idle" THEN detached + 1 ELSE detached
  /\ UNCHANGED <<roleVars, cache, locationState, sessionVars, invocations,
                 classifyVars, loadVars, renderVars, clarVars>>

\* the Dashboard button of the Chat screen: a new Dashboard mounts
ReturnDashboard ==
  /\ route = "/chat"
  /\ route' = "/dashboard"
  /\ UNCHANGED <<dashboardVars, roleVars, cache, locationState, sessionVars,
                 rfpVars, classifyVars, loadVars, renderVars, clarVars>>

\* processRFP settles for a run whose Dashboard has unmounted: the setters
\* of that Dashboard do nothing; after a result that passes the check
\* handleUpload still writes the cache and navigates to /clarifications,
\* which unmounts the Dashboard shown, if one is
DetachedSettles(result, stored) ==
  /\ detached > 0
  /\ IF InvokeThrows(result) # ""
       THEN /\ detached' = detached - 1
            /\ UNCHANGED <<dashboardVars, browserVars, rfpPc, simCurrent, simStopped,
                           simTimer, reports, outcome, received>>
       ELSE /\ cache' = SetItem(stored, JsonText(NormalizeBody(result)))
            /\ route' = "/clarifications"
            /\ locationState' = NormalizeBody(result)
            /\ Unmounted
            /\ detached' = IF route = "/dashboard" /\ rfpPc # "idle"
                             THEN detached ELSE detached - 1
  /\ UNCHANGED <<roleVars, sessionVars, invocations, classifyVars, loadVars,
                 renderVars, clarVars>>

----------------------------------------------------------------------------
(* The Dashboard's loads of role artifacts: the results effect, the        *)
(* mount-time loadLatestFiles and the Refresh Files handler.               *)

\* results.body?.steps || results.steps || []
StepsOf(r) ==
  IF r.body.type = "object" /\ r.body.object.hasSteps
    THEN r.body.object.steps
    ELSE IF r.hasSteps THEN r.steps ELSE <<>>

\* the results a Dashboard may be mounted with (presetResults)
ResultPool ==
  {Null} \cup { NormalizeBody(r) : r \in { x \in ResponsePool : InvokeThrows(x) = "" } }

\* what the store answers: to findUserArchitectures, findUserPricing and
\* findUserSOW (the newest file, null, or a rejection), to the fetchS3Json of
\* loadLatestFiles and Refresh Files and to that of the results effect, and
\* the e.message of a rejection
Environments ==
  [arch : {"found", "none", "rejects"},
   pricing : {"found", "none", "rejects"},
   sow : {"found", "none", "rejects"},
   latestFetch : {"ok", "rejects"},
   stepFetch : {"ok", "rejects"},
   message : {"", "Failed to fetch JSON"}]

\* the output of the step bound to a role, '' when none is
BoundOutput(ss, i) == IF Bound(ss, i) THEN ss[i].output ELSE Empty

\* the results effect, up to the fetch it starts: the SOW key
EffectSowKey(r) ==
  IF r = Null THEN Empty ELSE BoundOutput(StepsOf(r), SowStep(StepsOf(r)))

\* the results effect: the architecture key
EffectArchitectureKey(r) ==
  IF r = Null THEN Empty
  ELSE BoundOutput(StepsOf(r), ArchitectureStep(StepsOf(r)))

\* the results effect: the key of the pricing JSON it fetches, '' when the
\* results are null or no step is bound
EffectPricingKey(r) ==
  IF r = Null THEN Empty
  ELSE BoundOutput(StepsOf(r), PricingStep(StepsOf(r)))

\* getPresignedS3Url(S3_OUTPUT_BUCKET, key), and what made the call: the
\* mount ("mount"), the results effect ("results"), Refresh Files
\* ("refresh") or a download button ("download")
SignedUrl(key, on) == [key |-> key, on |-> on]

\* getRandomArchitectureDiagram().key
GalleryKey == "diagram.png"

\* the Dashboard just mounted with results r: loadLatestFiles is at its
\* first await, the results effect has run
DashboardMounted(r) ==
  /\ results = r
  /\ sowKey = EffectSowKey(r)
  /\ architectureKey = EffectArchitectureKey(r)
  /\ pricingData = Null
  /\ pricingError = ""
  /\ pricingLoading = (EffectPricingKey(r) # Empty)
  /\ stepFetch = IF EffectPricingKey(r) # Empty THEN "inflight" ELSE "idle"
  /\ latestPc = "archLookup"
  /\ signed = {SignedUrl(GalleryKey, "mount")}
                \cup IF EffectPricingKey(r) # Empty
                       THEN {SignedUrl(EffectPricingKey(r), "results")} ELSE {}

\* the results effect's fetchS3Json(...).then(...).catch(...).finally(...)
StepFetchSettles ==
  /\ stepFetch = "inflight"
  /\ stepFetch' = "done"
  /\ pricingLoading' = FALSE
  /\ IF env.stepFetch = "ok"
       THEN /\ pricingData' = Data(EffectPricingKey(results))
            /\ UNCHANGED <<pricingError, fetchFailures>>
       ELSE /\ pricingError' = OrMessage(env.message, "Failed to load pricing data")
            /\ fetchFailures' = fetchFailures + 1
            /\ UNCHANGED pricingData
  /\ UNCHANGED <<dashboardVars, sowKey, architectureKey, browserVars, sessionVars, rfpVars,
                 classifyVars, env, signed, latestPc, refreshPc, refreshes,
                 renderVars, clarVars>>

\* loadLatestFiles: await findUserArchitectures
LatestArchitecture ==
  /\ latestPc = "archLookup"
  /\ architectureKey' = IF env.arch = "found" THEN "l.json" ELSE architectureKey
  /\ latestPc' = IF env.arch = "rejects" THEN "done" ELSE "pricingLookup"
  /\ UNCHANGED <<dashboardVars, sowKey, pricingData, pricingLoading, pricingError,
                 browserVars, sessionVars, rfpVars, classifyVars, env, signed, refreshPc, stepFetch,
                 fetchFailures, refreshes,
                 renderVars, clarVars>>

\* loadLatestFiles: await findUserPricing
LatestPricingLookup ==
  /\ latestPc = "pricingLookup"
  /\ latestPc' = CASE env.pricing = "found" -> "pricingFetch"
                   [] env.pricing = "none" -> "sowLookup"
                   [] env.pricing = "rejects" -> "done"
  /\ signed' = IF env.pricing = "found"
                 THEN signed \cup {SignedUrl("lp.json", "mount")} ELSE signed
  /\ UNCHANGED <<dashboardVars, roleVars, browserVars, sessionVars, rfpVars, classifyVars, env,
                 refreshPc, stepFetch, fetchFailures, refreshes,
                 renderVars, clarVars>>

\* loadLatestFiles: await fetchS3Json in its own try: a failure is logged
LatestPricingFetch ==
  /\ latestPc = "pricingFetch"
  /\ latestPc' = "sowLookup"
  /\ IF env.latestFetch = "ok"
       THEN pricingData' = Data("lp.json") /\ UNCHANGED fetchFailures
       ELSE fetchFailures' = fetchFailures + 1 /\ UNCHANGED pricingData
  /\ UNCHANGED <<dashboardVars, sowKey, pricingLoading, pricingError,
                 architectureKey, browserVars, sessionVars, rfpVars, classifyVars, env, signed,
                 refreshPc, stepFetch, refreshes,
                 renderVars, clarVars>>

\* loadLatestFiles: await findUserSOW
LatestSow ==
  /\ latestPc = "sowLookup"
  /\ latestPc' = "done"
  /\ sowKey' = IF env.sow = "found" THEN "l.docx" ELSE sowKey
  /\ UNCHANGED <<dashboardVars, pricingData, pricingLoading, pricingError,
                 architectureKey, browserVars, sessionVars, rfpVars, classifyVars, env, signed,
                 refreshPc, stepFetch, fetchFailures, refreshes,
                 renderVars, clarVars>>

\* Refresh Files clicks modelled
MaxRefreshes == 1

\* the Refresh Files button, shown with the results: up to its first await
RefreshClick ==
  /\ results # Null
  /\ refreshPc = "idle"
  /\ refreshes < MaxRefreshes
  /\ refreshes' = refreshes + 1
  /\ refreshPc' = "archLookup"
  /\ UNCHANGED <<dashboardVars, roleVars, browserVars, sessionVars, rfpVars, classifyVars, env, signed,
                 latestPc, stepFetch, fetchFailures,
                 renderVars, clarVars>>

\* the handler's catch: any rejection ends it with the one generic message
RefreshCatch ==
  /\ error' = "Failed to refresh files"
  /\ refreshPc' = "idle"

\* Refresh Files: await findUserArchitectures
RefreshArchitecture ==
  /\ refreshPc = "archLookup"
  /\ IF env.arch = "rejects"
       THEN RefreshCatch /\ UNCHANGED architectureKey
       ELSE /\ architectureKey' =
                 IF env.arch = "found" THEN "l.json" ELSE architectureKey
            /\ refreshPc' = "pricingLookup"
            /\ UNCHANGED error
  /\ UNCHANGED <<selectedFile, processing, progress, results, sowKey, pricingData,
                 pricingLoading, pricingError, browserVars, sessionVars, rfpVars, classifyVars,
                 env, signed, latestPc, stepFetch, fetchFailures, refreshes,
                 renderVars, clarVars>>

\* Refresh Files: await findUserPricing
RefreshPricingLookup ==
  /\ refreshPc = "pricingLookup"
  /\ IF env.pricing = "rejects"
       THEN RefreshCatch
       ELSE /\ refreshPc' = IF env.pricing = "found" THEN "pricingFetch" ELSE "sowLookup"
            /\ UNCHANGED error
  /\ signed' = IF env.pricing = "found"
                 THEN signed \cup {SignedUrl("lp.json", "refresh")} ELSE signed
  /\ UNCHANGED <<selectedFile, processing, progress, results, roleVars, browserVars, sessionVars,
                 rfpVars, classifyVars, env, latestPc, stepFetch, fetchFailures,
                 refreshes,
                 renderVars, clarVars>>

\* Refresh Files: await fetchS3Json, with no try of its own
RefreshPricingFetch ==
  /\ refreshPc = "pricingFetch"
  /\ IF env.latestFetch = "ok"
       THEN /\ pricingData' = Data("lp.json")
            /\ refreshPc' = "sowLookup"
            /\ UNCHANGED <<error, fetchFailures>>
       ELSE /\ RefreshCatch
            /\ fetchFailures' = fetchFailures + 1
            /\ UNCHANGED pricingData
  /\ UNCHANGED <<selectedFile, processing, progress, results, sowKey,
                 pricingLoading, pricingError, architectureKey, browserVars, sessionVars,
                 rfpVars, classifyVars, env, signed, latestPc, stepFetch, refreshes,
                 renderVars, clarVars>>

\* Refresh Files: await findUserSOW
RefreshSow ==
  /\ refreshPc = "sowLookup"
  /\ IF env.sow = "rejects"
       THEN RefreshCatch /\ UNCHANGED sowKey
       ELSE /\ sowKey' = IF env.sow = "found" THEN "l.docx" ELSE sowKey
            /\ refreshPc' = "idle"
            /\ UNCHANGED error
  /\ UNCHANGED <<selectedFile, processing, progress, results, pricingData,
                 pricingLoading, pricingError, architectureKey, browserVars, sessionVars,
                 rfpVars, classifyVars, env, signed, latestPc, stepFetch, fetchFailures,
                 refreshes,
                 renderVars, clarVars>>

\* the summary's Steps Completed:
\* results.body?.steps?.length || results.steps?.length || 4
StepsCompleted(r) ==
  LET inBody == IF r.body.type = "object" /\ r.body.object.hasSteps
                  THEN Len(r.body.object.steps) ELSE 0
      atTop == IF r.hasSteps THEN Len(r.steps) ELSE 0
  IN IF inBody # 0 THEN inBody ELSE IF atTop # 0 THEN atTop ELSE 4

\* the summary's Processing Time of a result that reports no
\* total_time_seconds: the seconds of `~${stepCount * 30}s (estimated)`
EstimatedTime(r) == StepsCompleted(r) * 30

\* the Download Files list: the steps with an output whose name mentions
\* neither parsing nor clarification, in the order of the steps
DownloadListing(r) ==
  LET ss == StepsOf(r)
      listed(i) == /\ Truthy(ss[i].output)
                   /\ ~Includes(ToLower(OrEmpty(ss[i].step)), "parsing")
                   /\ ~Includes(ToLower(OrEmpty(ss[i].step)), "clarification")
  IN SelectSeq([i \in DOMAIN ss |-> i], listed)

\* the Download button of a listed step: a signed link to its output
DownloadStep(n) ==
  /\ results # Null
  /\ n \in DOMAIN DownloadListing(results)
  /\ signed' = signed \cup
                 {SignedUrl(StepsOf(results)[DownloadListing(results)[n]].output,
                            "download")}
  /\ UNCHANGED <<dashboardVars, roleVars, browserVars, sessionVars, rfpVars,
                 classifyVars, env, latestPc, refreshPc, stepFetch, fetchFailures,
                 refreshes, renderVars, clarVars>>

\* the Download SOW button, shown while a SOW key is held
DownloadSow ==
  /\ results # Null
  /\ Truthy(sowKey)
  /\ signed' = signed \cup {SignedUrl(sowKey, "download")}
  /\ UNCHANGED <<dashboardVars, roleVars, browserVars, sessionVars, rfpVars,
                 classifyVars, env, latestPc, refreshPc, stepFetch, fetchFailures,
                 refreshes, renderVars, clarVars>>

----------------------------------------------------------------------------
(* The JavaScript operators the screens apply to JSON values *)

\* v == null || v === undefined: reading a property of v throws a TypeError
IsNullish(v) == v.t \in {"undefined", "null"}

\* ToBoolean, as `||`, `&&`, `!` and `? :` apply it
JTruthy(v) ==
  CASE v.t \in {"undefined", "null", "nan"} -> FALSE
    [] v.t = "boolean" -> v.b
    [] v.t = "number" -> v.n # 0
    [] v.t = "string" -> v.s # ""
    [] OTHER -> TRUE

\* a || b
OrValue(a, b) == IF JTruthy(a) THEN a ELSE b

\* a ?? b
Coalesce(a, b) == IF IsNullish(a) THEN b ELSE a

\* Array.isArray(v)
IsArray(v) == v.t = "array"

\* v?.k, and v.k where v is not nullish: the own property k of an object,
\* undefined for a missing one and for the properties the screens read of
\* a primitive or an array
Get(v, k) ==
  IF v.t = "object" /\ \E i \in DOMAIN v.entries : v.entries[i][1] = k
    THEN v.entries[CHOOSE i \in DOMAIN v.entries : v.entries[i][1] = k][2]
    ELSE JUndef

\* the value of a string of decimal digits, -1 when a character is no digit
RECURSIVE DigitsValue(_)
DigitsValue(s) ==
  IF s = "" THEN 0
  ELSE LET digits == "0123456789"
           at == { d \in 1..10 : SubSeq(digits, d, d) = SubSeq(s, Len(s), Len(s)) }
           rest == DigitsValue(SubSeq(s, 1, Len(s) - 1))
       IN IF at = {} \/ rest < 0 THEN -1
          ELSE 10 * rest + (CHOOSE d \in at : TRUE) - 1

\* Number(string): '' is 0, an integer literal is its value, text that is
\* no numeric literal is NaN
StringToNumber(s) ==
  IF DigitsValue(s) >= 0 THEN JNum(DigitsValue(s))
  ELSE IF Head(s) = "-" /\ Len(s) > 1 /\ DigitsValue(Tail(s)) >= 0
    THEN JNum(0 - DigitsValue(Tail(s)))
  ELSE JNaN

\* String(v): Array.prototype.toString joins with ',' and renders null and
\* undefined elements as ''
RECURSIVE ToStringValue(_), JoinStrings(_)
ToStringValue(v) ==
  CASE v.t = "undefined" -> "undefined"
    [] v.t = "null" -> "null"
    [] v.t = "nan" -> "NaN"
    [] v.t = "boolean" -> IF v.b THEN "true" ELSE "false"
    [] v.t = "number" -> ToString(v.n)
    [] v.t = "string" -> v.s
    [] v.t = "array" -> JoinStrings(v.items)
    [] OTHER -> "[object Object]"

JoinStrings(items) ==
  IF items = <<>> THEN ""
  ELSE LET last == items[Len(items)]
           text == IF IsNullish(last) THEN "" ELSE ToStringValue(last)
       IN IF Len(items) = 1 THEN text
          ELSE JoinStrings(SubSeq(items, 1, Len(items) - 1)) \o "," \o text

\* Number(v)
ToNumber(v) ==
  CASE v.t = "undefined" -> JNaN
    [] v.t = "null" -> JNum(0)
    [] v.t = "nan" -> JNaN
    [] v.t = "boolean" -> JNum(IF v.b THEN 1 ELSE 0)
    [] v.t = "number" -> v
    [] OTHER -> StringToNumber(ToStringValue(v))

\* a * b and a + b of two numbers
Times(a, b) == IF a.t = "nan" \/ b.t = "nan" THEN JNaN ELSE JNum(a.n * b.n)
Plus(a, b) == IF a.t = "nan" \/ b.t = "nan" THEN JNaN ELSE JNum(a.n + b.n)

\* a slip: the characters are written as they are
EscapeNothing(s) == s

\* the characters of a string as JSON.stringify escapes them
RECURSIVE Escape(_)
Escape(s) ==
  IF s = "" THEN ""
  ELSE (IF Head(s) \in {"\"", "\\"} THEN "\\" \o Head(s) ELSE Head(s))
         \o Escape(Tail(s))

\* JSON.stringify(v) of a value that came out of JSON.parse
RECURSIVE Stringify(_), StringifyItems(_), StringifyEntries(_)
Stringify(v) ==
  CASE v.t = "undefined" -> Undefined
    [] v.t \in {"null", "nan"} -> "null"
    [] v.t = "boolean" -> ToStringValue(v)
    [] v.t = "number" -> ToString(v.n)
    [] v.t = "string" -> "\"" \o Escape(v.s) \o "\""
    [] v.t = "array" -> "[" \o StringifyItems(v.items) \o "]"
    [] OTHER -> "{" \o StringifyEntries(v.entries) \o "}"

StringifyItems(items) ==
  IF items = <<>> THEN ""
  ELSE LET text == Stringify(items[Len(items)])
       IN IF Len(items) = 1 THEN text
          ELSE StringifyItems(SubSeq(items, 1, Len(items) - 1)) \o "," \o text

StringifyEntries(entries) ==
  IF entries = <<>> THEN ""
  ELSE LET e == entries[Len(entries)]
           text == "\"" \o Escape(e[1]) \o "\":" \o Stringify(e[2])
       IN IF Len(entries) = 1 THEN text
          ELSE StringifyEntries(SubSeq(entries, 1, Len(entries) - 1))
                 \o "," \o text

\* what React accepts as a child: a plain object is not one, an array is
\* one when its elements are
RECURSIVE ValidChild(_)
ValidChild(v) ==
  CASE v.t = "object" -> FALSE
    [] v.t = "array" -> \A i \in DOMAIN v.items : ValidChild(v.items[i])
    [] OTHER -> TRUE

----------------------------------------------------------------------------
(* Dashboard.renderPricingTable and Clarifications.processClarifications  *)

\* a TypeError out of renderPricingTable
Throws == [view |-> "throws"]

\* the probes taken in the order lineItems, items, pricing
PricingItemsLineFirst(data) ==
  IF IsArray(data) THEN data
  ELSE IF IsArray(Get(data, "lineItems")) THEN Get(data, "lineItems")
  ELSE IF IsArray(Get(data, "items")) THEN Get(data, "items")
  ELSE IF IsArray(Get(data, "pricing")) THEN Get(data, "pricing")
  ELSE JNull

\* the array the generic table is drawn from, null when no probe finds one
PricingItems(data) ==
  IF IsArray(data) THEN data
  ELSE IF IsArray(Get(data, "items")) THEN Get(data, "items")
  ELSE IF IsArray(Get(data, "lineItems")) THEN Get(data, "lineItems")
  ELSE IF IsArray(Get(data, "pricing")) THEN Get(data, "pricing")
  ELSE JNull

\* one row of the table, of an item that is not nullish; idx of the code
\* counts from 0, the position i from 1
PricingRow(it, i) ==
  LET description == OrValue(Get(it, "description"),
                       OrValue(Get(it, "item"),
                         OrValue(Get(it, "name"), JStr("Item " \o ToString(i)))))
      quantity == Coalesce(Get(it, "quantity"), Coalesce(Get(it, "qty"), JNum(1)))
      unitPrice == Coalesce(Get(it, "unitPrice"),
                     Coalesce(Get(it, "pricePerUnit"),
                       Coalesce(Get(it, "unit_rate"),
                         Coalesce(Get(it, "rate"), JNum(0)))))
      total == Coalesce(Get(it, "total"),
                 Coalesce(Get(it, "extendedPrice"),
                   Coalesce(Get(it, "amount"),
                     Times(ToNumber(quantity), ToNumber(unitPrice)))))
  IN [description |-> description, quantity |-> quantity,
      unitPrice |-> unitPrice, total |-> total]

\* rows.reduce((acc, r) => acc + Number(r.total || 0), 0)
RECURSIVE GrandTotal(_)
GrandTotal(rows) ==
  IF rows = <<>> THEN JNum(0)
  ELSE Plus(GrandTotal(SubSeq(rows, 1, Len(rows) - 1)),
            ToNumber(OrValue(rows[Len(rows)].total, JNum(0))))

\* toCurrency(value): the number handed to the formatter, num || 0
CurrencyAmount(value) ==
  OrValue(IF value.t = "string" THEN ToNumber(value) ELSE value, JNum(0))

\* the generic table: reading it.description of a null item is a TypeError,
\* a description or quantity that is a plain object is no React child
TabularView(items) ==
  IF \E i \in DOMAIN items : IsNullish(items[i]) THEN Throws
  ELSE LET rows == [i \in DOMAIN items |-> PricingRow(items[i], i)]
       IN IF \E i \in DOMAIN rows :
               ~ValidChild(rows[i].description) \/ ~ValidChild(rows[i].quantity)
            THEN Throws
            ELSE [view |-> "tabular", rows |-> rows, grandTotal |-> GrandTotal(rows)]

\* the pricing_check view: reading rec.type of a null recommendation is a
\* TypeError; the duration, the verdict, a recommendation's type and
\* rationale are drawn as React children
StructuredView(data) ==
  LET pc == OrValue(Get(data, "pricing_check"), JObj(<<>>))
      breakdown == OrValue(Get(pc, "breakdown"), JObj(<<>>))
      feasibility == OrValue(Get(pc, "feasibility"), JObj(<<>>))
      recommendations ==
        IF IsArray(Get(pc, "funding_recommendations"))
          THEN Get(pc, "funding_recommendations").items ELSE <<>>
      verdict == OrValue(Get(feasibility, "feasibility"), JStr(""))
      feasible == ToLower(ToStringValue(verdict)) = "feasible"
  IN IF \/ \E i \in DOMAIN recommendations : IsNullish(recommendations[i])
        \/ ~ValidChild(Get(breakdown, "duration_months"))
        \/ ~feasible /\ ~ValidChild(verdict)
       THEN Throws
     ELSE IF \E i \in DOMAIN recommendations :
               \/ ~ValidChild(Get(recommendations[i], "type"))
               \/ ~ValidChild(Get(recommendations[i], "rationale"))
       THEN Throws
     ELSE [view |-> "structured",
           feasible |-> feasible,
           recommendations |-> Len(recommendations),
           raw |-> data]

\* renderPricingTable(data): nothing for no data, else the first view whose
\* probe matches, the raw JSON when none does
RenderPricingTable(data) ==
  IF ~JTruthy(data) THEN [view |-> "none"]
  ELSE IF JTruthy(Get(data, "pricing_check")) THEN StructuredView(data)
  ELSE IF PricingItems(data).t = "null" THEN [view |-> "raw", raw |-> data]
  ELSE TabularView(PricingItems(data).items)

\* the first truthy of q[k] over the keys, JSON.stringify(q) when none is
RECURSIVE QuestionText(_, _)
QuestionText(q, keys) ==
  IF keys = <<>> THEN JStr(Stringify(q))
  ELSE OrValue(Get(q, Head(keys)), QuestionText(q, Tail(keys)))

\* json.map(...) of processClarifications: a string is kept, a null entry
\* throws a TypeError at q.question
MapQuestions(list, keys) ==
  IF \E i \in DOMAIN list : IsNullish(list[i])
    THEN [threw |-> TRUE, qList |-> <<>>]
    ELSE [threw |-> FALSE,
          qList |-> [i \in DOMAIN list |->
                       IF list[i].t = "string" THEN list[i]
                       ELSE QuestionText(list[i], keys)]]

\* the keys in ks that are canonical array indices, ascending
RECURSIVE SortIndexKeys(_)
SortIndexKeys(ks) ==
  IF ks = {} THEN <<>>
  ELSE LET least == CHOOSE k \in ks : \A o \in ks : DigitsValue(k) <= DigitsValue(o)
       IN <<least>> \o SortIndexKeys(ks \ {least})

\* the elements of s at the positions in keep, in their order
Pick(s, keep) ==
  [i \in 1..Cardinality(keep) |->
     s[CHOOSE j \in keep : Cardinality({ l \in keep : l < j }) = i - 1]]

\* Object.keys(json || {}): the indices of a string's characters, the own
\* keys of an object (integer keys first, ascending, then the others as
\* inserted), nothing of a number, a boolean or null
ObjectKeys(json) ==
  CASE json.t = "string" -> [i \in 1..Len(json.s) |-> ToString(i - 1)]
    [] json.t = "array" -> [i \in DOMAIN json.items |-> ToString(i - 1)]
    [] json.t = "object" ->
         LET ks == [i \in DOMAIN json.entries |-> json.entries[i][1]]
             idx == { i \in DOMAIN ks :
                        /\ ks[i] # "" /\ DigitsValue(ks[i]) >= 0
                        /\ (Len(ks[i]) = 1 \/ Head(ks[i]) # "0") }
         IN SortIndexKeys({ ks[i] : i \in idx }) \o Pick(ks, DOMAIN ks \ idx)
    [] OTHER -> <<>>

\* json[k] for a key Object.keys gave
Member(json, k) ==
  CASE json.t = "string" -> JStr(SubSeq(json.s, DigitsValue(k) + 1, DigitsValue(k) + 1))
    [] json.t = "array" -> json.items[DigitsValue(k) + 1]
    [] OTHER -> Get(json, k)

\* a slip: the value is stringified whatever its type
PseudoQuestionsStringified(json) ==
  [threw |-> FALSE,
   qList |-> [i \in DOMAIN ObjectKeys(json) |->
                LET k == ObjectKeys(json)[i]
                IN JStr(k \o ": " \o Stringify(Member(json, k)))]]

\* the fallback of processClarifications: one pseudo-question per key,
\* `${k}: ${typeof json[k] === 'string' ? json[k] : JSON.stringify(json[k])}`
PseudoQuestions(json) ==
  [threw |-> FALSE,
   qList |-> [i \in DOMAIN ObjectKeys(json) |->
                LET k == ObjectKeys(json)[i]
                IN JStr(k \o ": " \o
                        (IF Member(json, k).t = "string" THEN Member(json, k).s
                         ELSE Stringify(Member(json, k))))]]

\* processClarifications(json): the questions handed to setQuestions, or
\* the TypeError it throws before it reaches setQuestions
ProcessClarifications(json) ==
  IF IsArray(json)
    THEN MapQuestions(json.items, <<"question", "q", "text", "prompt">>)
  ELSE IF IsArray(Get(json, "questions"))
    THEN MapQuestions(Get(json, "questions").items, <<"question", "text">>)
  ELSE IF IsArray(Get(json, "clarifications"))
    THEN MapQuestions(Get(json, "clarifications").items, <<"question", "text">>)
  ELSE PseudoQuestions(json)

----------------------------------------------------------------------------
(* The payloads a fetch may deliver *)

\* the longest array in a payload
MaxItems == 2

Arrays(pool) == UNION { [1..n -> pool] : n \in 0..MaxItems }

\* the elements of a pricing array: line items in each naming, an empty
\* object, a primitive, null
PricingItemPool ==
  { JObj(<< <<"description", JStr("A")>>, <<"quantity", JNum(2)>>,
            <<"unitPrice", JNum(10)>> >>),
    JObj(<< <<"item", JStr("foo")>>, <<"qty", JStr("3")>>,
            <<"rate", JNum(4)>>, <<"amount", JNum(7)>> >>),
    JObj(<< <<"name", JStr("bar")>>, <<"total", JStr("A")>> >>),
    JObj(<<>>),
    JNum(5),
    JNull }

\* the elements of a clarification array
ClarItemPool ==
  { JStr("Who?"),
    JObj(<< <<"question", JStr("Who?")>> >>),
    JObj(<< <<"text", JStr("A")>>, <<"prompt", JStr("bar")>> >>),
    JObj(<< <<"q", JStr("foo")>> >>),
    JNum(5),
    JNull }

\* pricing payloads, clarification payloads, payloads of no known shape
Payloads ==
  { JArr(a) : a \in Arrays(PricingItemPool) \cup Arrays(ClarItemPool) }
    \cup { JObj(<< <<k, JArr(a)>> >>) :
             k \in {"items", "lineItems", "pricing"}, a \in Arrays(PricingItemPool) }
    \cup { JObj(<< <<k, JArr(a)>> >>) :
             k \in {"questions", "clarifications"}, a \in Arrays(ClarItemPool) }
    \cup { JObj(<< <<"pricing_check", pc>>, <<"items", JArr(<<>>)>> >>) :
             pc \in { JObj(<< <<"feasibility",
                                JObj(<< <<"feasibility", JStr("Feasible")>> >>)>>,
                              <<"funding_recommendations",
                                JArr(<< JObj(<< <<"type", JStr("A")>>,
                                                <<"amount", JNum(5)>> >>) >>)>> >>),
                      JObj(<< <<"funding_recommendations", JArr(<<JNull>>)>> >>),
                      JObj(<<>>) } }
    \cup { JObj(<< <<"pricing_check", pc>>, <<"items", JArr(<<JStr("A")>>)>> >>) :
             pc \in { JStr("yes"), JNum(0), JNull, JBool(TRUE) } }
    \cup { JObj(<< <<"pricing", JArr(<<JObj(<< <<"name", JStr("bar")>> >>)>>)>>,
                    <<"lineItems", JArr(<<JObj(<< <<"name", JStr("foo")>> >>)>>)>>,
                    <<"items", JArr(<<JObj(<< <<"name", JStr("A")>> >>)>>)>> >>),
           JObj(<< <<"pricing", JArr(<<JObj(<< <<"name", JStr("bar")>> >>)>>)>>,
                   <<"lineItems", JArr(<<JObj(<< <<"name", JStr("foo")>> >>)>>)>> >>) }
    \cup { JObj(<< <<"lineItems", JArr(<<>>)>>, <<"items", JNum(5)>> >>),
           JNull, JNum(0), JNum(5), JBool(TRUE), JStr(""), JStr("foo"),
           JObj(<<>>),
           JObj(<< <<"foo", JStr("bar")>> >>),
           JObj(<< <<"foo", JNum(5)>>, <<"3", JArr(<<JNull, JStr("A")>>)>> >>) }

NotRendered == [view |-> "pending"]
NotProcessed == [threw |-> FALSE, qList |-> <<>>, pending |-> TRUE]

RenderIdle ==
  /\ payload = JNull
  /\ rendered = NotRendered
  /\ processed = NotProcessed
  /\ drawn = NotRendered

\* the Dashboard draws the pricing section of the payload it holds
RenderPricing ==
  /\ rendered.view = "pending"
  /\ rendered' = RenderPricingTable(payload)
  /\ UNCHANGED <<payload, processed, drawn, classifyVars, dashboardVars, roleVars,
                 browserVars, sessionVars, rfpVars, loadVars, clarVars>>

\* the Clarifications screen processes the payload it fetched
ProcessClar ==
  /\ "pending" \in DOMAIN processed
  /\ processed' = ProcessClarifications(payload)
  /\ UNCHANGED <<payload, rendered, drawn, classifyVars, dashboardVars, roleVars,
                 browserVars, sessionVars, rfpVars, loadVars, clarVars>>

----------------------------------------------------------------------------
(* The ArchitectureDiagram component: its render of architectureData      *)

\* the render once loading is over and no error is set: the 'no data' box
\* for no data, else renderArchitectureInfo, which returns null without an
\* architecture_diagram and otherwise reads proposal.project_info.title,
\* proposal.architecture.recommended_services.map and the rest unguarded
ArchitectureView(data) ==
  IF ~JTruthy(data) THEN [view |-> "nodata"]
  ELSE IF ~JTruthy(Get(data, "architecture_diagram")) THEN [view |-> "blank"]
  ELSE LET proposal == Get(Get(data, "architecture_diagram"), "proposal")
           diagram == Get(Get(data, "architecture_diagram"), "diagram")
           info == Get(proposal, "project_info")
           architecture == Get(proposal, "architecture")
           services == Get(architecture, "recommended_services")
           notes == Get(proposal, "implementation_notes")
           code == Get(diagram, "mermaid_code")
           notesDrawn == JTruthy(notes) /\ notes.t \in {"array", "string", "object"}
                           /\ (IF notes.t = "array" THEN Len(notes.items) > 0
                               ELSE IF notes.t = "string" THEN TRUE
                               ELSE ToNumber(Get(notes, "length")).t = "number"
                                      /\ ToNumber(Get(notes, "length")).n > 0)
       IN IF \/ IsNullish(proposal) \/ IsNullish(info) \/ IsNullish(architecture)
             \/ ~IsArray(services)
             \/ notesDrawn /\ ~IsArray(notes)
            THEN Throws
          ELSE IF \/ ~ValidChild(Get(info, "title"))
                  \/ ~ValidChild(Get(info, "customer"))
                  \/ ~ValidChild(services)
                  \/ ~ValidChild(Get(architecture, "explanation"))
                  \/ ~ValidChild(IF JTruthy(diagram) THEN code ELSE diagram)
                  \/ ~ValidChild(notes)
            THEN Throws
          ELSE [view |-> "info",
                services |-> Len(services.items),
                diagram |-> JTruthy(diagram) /\ JTruthy(code),
                notes |-> notesDrawn]

\* architecture payloads: architecture_diagram with each of its parts there
\* or missing
ArchitecturePayloads ==
  LET Opt(present, k, v) == IF present THEN << <<k, v>> >> ELSE <<>>
      Proposal(i, a, n) ==
        JObj(Opt(i, "project_info",
                 JObj(<< <<"title", JStr("T")>>, <<"customer", JStr("C")>>,
                         <<"generated_at", JStr("2024-01-01")>> >>))
             \o Opt(a, "architecture",
                    JObj(<< <<"recommended_services", JArr(<<JStr("S3")>>)>>,
                            <<"explanation", JStr("E")>> >>))
             \o Opt(n, "implementation_notes", JArr(<<JStr("N")>>)))
      Diagram == JObj(<< <<"mermaid_code", JStr("graph TD")>> >>)
  IN { JObj(<< <<"architecture_diagram",
                 JObj(Opt(p, "proposal", Proposal(i, a, n))
                        \o Opt(d, "diagram", Diagram))>> >>) :
         p \in BOOLEAN, i \in BOOLEAN, a \in BOOLEAN, n \in BOOLEAN, d \in BOOLEAN }
     \cup { JObj(<< <<"architecture_diagram", JNull>> >>) }

\* the ArchitectureDiagram component draws the payload it fetched
RenderArchitecture ==
  /\ drawn.view = "pending"
  /\ drawn' = ArchitectureView(payload)
  /\ UNCHANGED <<payload, rendered, processed, classifyVars, dashboardVars,
                 roleVars, browserVars, sessionVars, rfpVars, loadVars, clarVars>>

----------------------------------------------------------------------------
(* The Clarifications screen: loadClarifications, called by the effect on *)
(* mount and again whenever the results memo changes                      *)

\* the loadClarifications calls followed
MaxRuns == 2

\* what fetchS3Json may deliver to the screen
ClarSamples ==
  { JArr(<<JStr("Who?")>>),
    JArr(<<JObj(<< <<"question", JStr("Who?")>> >>), JNull>>),
    JObj(<< <<"foo", JStr("bar")>> >>) }

\* clarStep?.output of the results, '' when the results are null or no step
\* is bound
ClarKey(r) ==
  IF r = Null THEN Empty
  ELSE BoundOutput(StepsOf(r), ClarStep(StepsOf(r)))

ClarIdle ==
  /\ clarResults = Null
  /\ continuing = FALSE
  /\ navTimers = <<>>
  /\ clarLoading = TRUE
  /\ clarError = ""
  /\ questions = <<>>
  /\ loaders = [k \in 1..MaxRuns |-> [pc |-> "unstarted", how |-> "none"]]
  /\ curRun = 0
  /\ resumed = 0

\* the effect runs with results r: loadClarifications up to its first await
LoadClarifications(r) ==
  /\ curRun < MaxRuns
  /\ curRun' = curRun + 1
  /\ clarResults' = r
  /\ clarLoading' = TRUE
  /\ clarError' = ""
  /\ loaders' = [loaders EXCEPT ![curRun + 1] =
                   [pc |-> IF ClarKey(r) # Empty THEN "stepFetch" ELSE "lookup",
                    how |-> "none"]]
  /\ resumed' = 0
  /\ UNCHANGED <<questions, continuing, navTimers, classifyVars, dashboardVars, roleVars, browserVars, sessionVars,
                 rfpVars, loadVars, renderVars>>

\* fetchS3Json resolves for call k: processClarifications(json), return; a
\* TypeError of processClarifications lands in the catch, which shows its
\* e.message; then the finally
ClarFetchResolves(k, json) ==
  /\ loaders[k].pc \in {"stepFetch", "latestFetch"}
  /\ IF ProcessClarifications(json).threw
       THEN /\ clarError' = "Cannot read properties of null (reading 'question')"
            /\ UNCHANGED questions
       ELSE /\ questions' = ProcessClarifications(json).qList
            /\ UNCHANGED clarError
  /\ clarLoading' = FALSE
  /\ loaders' = [loaders EXCEPT ![k] =
                   [pc |-> "done",
                    how |-> IF ProcessClarifications(json).threw
                              THEN "threw" ELSE "data"]]
  /\ resumed' = k
  /\ UNCHANGED <<clarResults, continuing, navTimers, curRun, classifyVars, dashboardVars, roleVars,
                 browserVars, sessionVars, rfpVars, loadVars, renderVars>>

\* findUserClarifications resolves for call k: with a file, the call fetches
\* it; with null, the call reports that nothing was found
ClarLookupResolves(k, found) ==
  /\ loaders[k].pc = "lookup"
  /\ IF found
       THEN /\ loaders' = [loaders EXCEPT ![k].pc = "latestFetch"]
            /\ UNCHANGED <<clarError, clarLoading>>
       ELSE /\ clarError' = "No clarifications found. Please process an RFP first."
            /\ clarLoading' = FALSE
            /\ loaders' = [loaders EXCEPT ![k] = [pc |-> "done", how |-> "nothing"]]
  /\ resumed' = k
  /\ UNCHANGED <<clarResults, continuing, navTimers, questions, curRun, classifyVars, dashboardVars,
                 roleVars, browserVars, sessionVars, rfpVars, loadVars, renderVars>>

\* the await of call k rejects: the catch, then the finally
ClarRejects(k, message) ==
  /\ loaders[k].pc \in {"stepFetch", "lookup", "latestFetch"}
  /\ clarError' = OrMessage(message, "Failed to load clarifications")
  /\ clarLoading' = FALSE
  /\ loaders' = [loaders EXCEPT ![k] = [pc |-> "done", how |-> "rejected"]]
  /\ resumed' = k
  /\ UNCHANGED <<clarResults, continuing, navTimers, questions, curRun, classifyVars, dashboardVars,
                 roleVars, browserVars, sessionVars, rfpVars, loadVars, renderVars>>

----------------------------------------------------------------------------
(* The result cache: JSON.parse of the stored text, the results memo of    *)
(* the Results and Clarifications screens, and the handlers that write it  *)

\* what JSON.parse throws on a text that is no JSON
SyntaxError == [t |-> "syntaxerror"]

\* JSON.parse(text), for texts whose numbers are integers and whose string
\* escapes are \" \\ \/ \n \t: the value, or SyntaxError
Parse(text) ==
  LET Fail == [ok |-> FALSE, v |-> SyntaxError, at |-> 0]
      Ok(v, at) == [ok |-> TRUE, v |-> v, at |-> at]
      Char(i) == IF i >= 1 /\ i <= Len(text) THEN SubSeq(text, i, i) ELSE ""
      Word(i, w, v) ==
        IF i + Len(w) - 1 <= Len(text) /\ SubSeq(text, i, i + Len(w) - 1) = w
          THEN Ok(v, i + Len(w)) ELSE Fail
      IsDigit(c) == c # "" /\ DigitsValue(c) >= 0
      \* a duplicate key keeps its place and takes the later value
      Put(acc, k, v) ==
        IF \E j \in DOMAIN acc : acc[j][1] = k
          THEN [j \in DOMAIN acc |-> IF acc[j][1] = k THEN <<k, v>> ELSE acc[j]]
          ELSE Append(acc, <<k, v>>)
      RECURSIVE Skip(_), DigitsEnd(_), Chars(_, _), Value(_), Items(_, _),
                Entries(_, _)
      Skip(i) == IF Char(i) \in {" ", "\n", "\t", "\r"} THEN Skip(i + 1) ELSE i
      DigitsEnd(i) == IF IsDigit(Char(i)) THEN DigitsEnd(i + 1) ELSE i
      Number(i) ==
        LET from == IF Char(i) = "-" THEN i + 1 ELSE i
            to == IF Char(from) = "0" THEN from + 1 ELSE DigitsEnd(from)
            n == DigitsValue(SubSeq(text, from, to - 1))
        IN IF to = from THEN Fail
           ELSE Ok(JNum(IF from > i THEN 0 - n ELSE n), to)
      \* the characters of a string literal from i on, up to its closing quote
      Chars(i, acc) ==
        LET c == Char(i)
            e == Char(i + 1)
        IN CASE c = "" -> Fail
             [] c = "\"" -> Ok(JStr(acc), i + 1)
             [] c \in {"\n", "\t", "\r"} -> Fail
             [] c = "\\" ->
                  IF e \in {"\"", "\\", "/"} THEN Chars(i + 2, acc \o e)
                  ELSE IF e = "n" THEN Chars(i + 2, acc \o "\n")
                  ELSE IF e = "t" THEN Chars(i + 2, acc \o "\t")
                  ELSE Fail
             [] OTHER -> Chars(i + 1, acc \o c)
      Value(i) ==
        LET k == Skip(i)
            c == Char(k)
        IN CASE c = "n" -> Word(k, "null", JNull)
             [] c = "t" -> Word(k, "true", JBool(TRUE))
             [] c = "f" -> Word(k, "false", JBool(FALSE))
             [] c = "\"" -> Chars(k + 1, "")
             [] c = "[" -> IF Char(Skip(k + 1)) = "]"
                             THEN Ok(JArr(<<>>), Skip(k + 1) + 1)
                             ELSE Items(k + 1, <<>>)
             [] c = "{" -> IF Char(Skip(k + 1)) = "}"
                             THEN Ok(JObj(<<>>), Skip(k + 1) + 1)
                             ELSE Entries(k + 1, <<>>)
             [] c = "-" \/ IsDigit(c) -> Number(k)
             [] OTHER -> Fail
      Items(i, acc) ==
        LET r == Value(i)
            k == Skip(r.at)
        IN IF ~r.ok THEN Fail
           ELSE IF Char(k) = "," THEN Items(k + 1, Append(acc, r.v))
           ELSE IF Char(k) = "]" THEN Ok(JArr(Append(acc, r.v)), k + 1)
           ELSE Fail
      Entries(i, acc) ==
        LET k == Skip(i)
            key == IF Char(k) = "\"" THEN Chars(k + 1, "") ELSE Fail
            r == IF key.ok /\ Char(Skip(key.at)) = ":"
                   THEN Value(Skip(key.at) + 1) ELSE Fail
            n == Skip(r.at)
        IN IF ~r.ok THEN Fail
           ELSE IF Char(n) = "," THEN Entries(n + 1, Put(acc, key.v.s, r.v))
           ELSE IF Char(n) = "}" THEN Ok(JObj(Put(acc, key.v.s, r.v)), n + 1)
           ELSE Fail
      whole == Value(1)
  IN IF whole.ok /\ Skip(whole.at) = Len(text) + 1 THEN whole.v ELSE SyntaxError

\* a slip: the memo parses the item outside any try/catch
CachedResultsUnguarded(state, item) ==
  IF JTruthy(state) THEN state
  ELSE IF item = Null \/ item.of = "" THEN JNull
  ELSE Parse(item.of)

\* the results memo of Results and of Clarifications: the results of
\* location.state when truthy, else the parsed item, null when there is no
\* item, when it is empty and when JSON.parse throws
CachedResults(state, item) ==
  IF JTruthy(state) THEN state
  ELSE IF item = Null \/ item.of = "" THEN JNull
  ELSE LET parsed == Parse(item.of)
       IN IF parsed = SyntaxError THEN JNull ELSE parsed

\* results.body?.steps || results.steps || [] as the results effect reads
\* it: nothing when it is no array
ResultSteps(r) ==
  LET list == OrValue(Get(Get(r, "body"), "steps"),
                      OrValue(Get(r, "steps"), JArr(<<>>)))
      field(s, k) == IF Get(s, k).t = "string" THEN Get(s, k).s ELSE Undefined
  IN IF IsArray(list)
       THEN [i \in DOMAIN list.items |->
               [step |-> field(list.items[i], "step"),
                output |-> field(list.items[i], "output")]]
       ELSE <<>>

\* the longest steps list of a cached result
MaxCachedSteps == 1

\* pipeline results as JSON.parse of the Lambda payload gives them: the
\* steps under body, at the top level, or a body that stayed a string
CachedResultPool ==
  LET StepValue(s) ==
        JObj((IF s.step = Undefined THEN <<>> ELSE << <<"step", JStr(s.step)>> >>)
             \o (IF s.output = Undefined THEN <<>>
                 ELSE << <<"output", JStr(s.output)>> >>))
      StepsValue(ss) == JArr([i \in DOMAIN ss |-> StepValue(ss[i])])
      \* a step for each view, one without a name, one without an output
      pool == { s \in StepPool :
                  s.output \in {"s.docx", "e.JSON", "a.png", "c.json", "price.json",
                                Undefined} }
      lists == UNION { [1..n -> pool] : n \in 0..MaxCachedSteps }
  IN { JObj(<< <<"statusCode", JNum(200)>>,
               <<"body", JObj(<< <<"steps", StepsValue(ss)>> >>)>> >>) : ss \in lists }
     \cup { JObj(<< <<"steps", StepsValue(<<s>>)>>, <<"note", JStr("a \\ b")>> >>) :
              s \in { x \in StepPool : x.step = "SOW Draft" } }
     \cup { JObj(<< <<"statusCode", JNum(200)>>, <<"body", JStr("say \"done\"")>> >>) }

\* what the slot may hold when the page loads: nothing, texts that are no
\* JSON, and JSON texts another page or an earlier version left there
StoredTexts ==
  { "", "undefined", "[object Object]", "{\"steps\":[],}",
    "{\"steps\":[{\"step\":\"SOW Draft\",\"output\":\"s.do", "null", "5",
    "{\"steps\":5}", " { \"steps\" : [ { \"output\" : \"old.pdf\" } ] } " }

\* handleUpload after processRFP returned r: the result is kept, written
\* through and handed to the Clarifications screen as location.state
WriteThrough(r, stored) ==
  /\ route = "/dashboard"
  /\ received' = [type |-> "result", result |-> r]
  /\ results' = r
  /\ cache' = SetItem(stored, PlainText(Stringify(r)))
  /\ route' = "/clarifications"
  /\ locationState' = r
  /\ clarResults' = CachedResults(r, cache')
  /\ continuing' = FALSE
  /\ UNCHANGED <<selectedFile, processing, progress, error, roleVars,
                 classifyVars, rfpPc, simCurrent, simStopped, simTimer, reports,
                 outcome, invocations, detached, loadVars, renderVars, clarLoading, clarError,
                 questions, loaders, curRun, resumed, navTimers,
                 sessionVars>>

\* the router comes to path with no state: by a history entry (Back or
\* Forward inside the page) or by navigate(path), as the Back and Dashboard
\* buttons of the Clarifications screen do; the screen mounts and its memo
\* reads the cache; a Dashboard that mounts has made no call yet; a timer
\* that handleContinue has set is not cleared. The screen shown is not
\* mounted again by a visit of its own path
Visit(path) ==
  /\ path # route
  /\ route' = path
  /\ locationState' = JUndef
  /\ continuing' = FALSE
  /\ results' = IF path = "/results" THEN CachedResults(JUndef, cache) ELSE JNull
  /\ clarResults' = IF path = "/clarifications"
                      THEN CachedResults(JUndef, cache) ELSE JNull
  /\ steps' = ResultSteps(results')
  /\ binding' = NoBinding
  /\ cpc' = IF path = "/results" THEN "input" ELSE "idle"
  /\ received' = IF path = "/dashboard" THEN NothingReceived ELSE received
  /\ UNCHANGED <<selectedFile, processing, progress, error, roleVars, cache,
                 rfpPc, simCurrent, simStopped, simTimer, reports, outcome,
                 invocations, detached, loadVars, renderVars, clarLoading, clarError,
                 questions, loaders, curRun, resumed, navTimers,
                 sessionVars>>

\* timers of handleContinue pending at once
MaxTimers == 2

\* Clarifications.handleContinue: the results and the answers are written
\* to the cache and the timer is set
HandleContinue(stored) ==
  /\ route = "/clarifications"
  /\ ~continuing
  /\ Len(navTimers) < MaxTimers
  /\ navTimers' = Append(navTimers, clarResults)
  /\ cache' = SetItem(stored, PlainText(Stringify(clarResults)))
  /\ continuing' = TRUE
  /\ UNCHANGED <<route, locationState, classifyVars, dashboardVars, roleVars,
                 rfpVars, loadVars, renderVars, clarResults, clarLoading,
                 clarError, questions, loaders, curRun, resumed,
                 sessionVars>>

\* the timer of handleContinue fires: navigate('/results', {state}), and
\* the Results screen mounts
ContinueTimer ==
  /\ navTimers # <<>>
  /\ navTimers' = Tail(navTimers)
  /\ continuing' = FALSE
  /\ route' = "/results"
  /\ locationState' = Head(navTimers)
  /\ results' = CachedResults(Head(navTimers), cache)
  /\ steps' = ResultSteps(results')
  /\ binding' = NoBinding
  /\ cpc' = "input"
  /\ clarResults' = JNull
  /\ UNCHANGED <<selectedFile, processing, progress, error, roleVars, cache,
                 rfpVars, loadVars, renderVars, clarLoading, clarError,
                 questions, loaders, curRun, resumed,
                 sessionVars>>

----------------------------------------------------------------------------
(* The session: App's user, its routes and the Login form                  *)

\* what may be typed into the email field: a local part and what follows it
EmailPool ==
  { local \o rest :
      local \in {"", "a", "b.c", "a b", "a@b", " a", "a\t"},
      rest \in {"", "@hcltech.com", "@hcltech.com ", "@HCLTECH.com",
                "@hcltech.comx", "@hcltechXcom", "@gmail.com"} }

\* a slip: the pattern is not applied
EmailRegexSkipped(e) == TRUE

\* /^[^\s@]+@hcltech\.com$/.test(e)
EmailRegexTest(e) ==
  LET n == Len(e) - Len("@hcltech.com")
  IN /\ n >= 1
     /\ SubSeq(e, n + 1, Len(e)) = "@hcltech.com"
     /\ \A i \in 1..n : SubSeq(e, i, i) \notin {" ", "\t", "\n", "\r", "@"}

\* the screen App's Routes show for a path: / and a protected path without
\* a user lead to /login, /login with a user leads to /dashboard
RouteShown(path, u) ==
  IF path \in {"/", "/login"}
    THEN (IF u = Null THEN "/login" ELSE "/dashboard")
    ELSE (IF u = Null THEN "/login" ELSE path)

\* the router is sent to a path: by a page load, which starts App anew, or
\* inside the page (a nav button, Back, Forward)
Go(path, reload) ==
  /\ user' = IF reload THEN Null ELSE user
  /\ route' = RouteShown(path, user')
  /\ email' = IF reload \/ route' # "/login" THEN "" ELSE email
  /\ loginError' = IF reload \/ route' # "/login" THEN "" ELSE loginError
  /\ UNCHANGED <<cache, locationState, classifyVars, dashboardVars, roleVars,
                 rfpVars, loadVars, renderVars, clarVars>>

\* the email field's onChange
TypeEmail(e) ==
  /\ route = "/login"
  /\ email' = e
  /\ UNCHANGED <<user, loginError, browserVars, classifyVars, dashboardVars,
                 roleVars, rfpVars, loadVars, renderVars, clarVars>>

\* Login.handleSubmit, and App.handleLogin with the /login route's
\* Navigate when it accepts the email
HandleSubmit ==
  /\ route = "/login"
  /\ IF ~EndsWith(email, "@hcltech.com")
       THEN /\ loginError' = "Only @hcltech.com email addresses are allowed"
            /\ UNCHANGED <<user, email, route>>
     ELSE IF ~EmailRegexTest(email)
       THEN /\ loginError' = "Please enter a valid email address"
            /\ UNCHANGED <<user, email, route>>
     ELSE /\ user' = [email |-> email]
          /\ route' = RouteShown("/login", user')
          /\ email' = ""
          /\ loginError' = ""
  /\ UNCHANGED <<cache, locationState, classifyVars, dashboardVars, roleVars,
                 rfpVars, loadVars, renderVars, clarVars>>

\* App.handleLogout, from the Logout button of a protected screen, and the
\* route's Navigate
HandleLogout ==
  /\ route \in {"/dashboard", "/clarifications", "/results", "/chat"}
  /\ user' = Null
  /\ route' = RouteShown(route, user')
  /\ UNCHANGED <<email, loginError, cache, locationState, classifyVars,
                 dashboardVars, roleVars, rfpVars, loadVars, renderVars,
                 clarVars>>

----------------------------------------------------------------------------
(* Initial states of the parts *)

\* a user is signed in and the Login form is not shown
LoggedIn ==
  /\ user = [email |-> "a@hcltech.com"]
  /\ email = ""
  /\ loginError = ""

ClassifyIdle ==
  /\ steps = <<>>
  /\ binding = NoBinding
  /\ cpc = "idle"

DashboardInit ==
  /\ selectedFile = FALSE
  /\ processing = FALSE
  /\ progress = NoProgress
  /\ results = Null
  /\ error = ""
  /\ sowKey = Empty
  /\ pricingData = Null
  /\ pricingLoading = FALSE
  /\ pricingError = ""
  /\ architectureKey = Empty

RfpIdle ==
  /\ rfpPc = "idle"
  /\ simCurrent = 0
  /\ simStopped = FALSE
  /\ simTimer = FALSE
  /\ reports = <<>>
  /\ outcome = "none"
  /\ invocations = 0
  /\ detached = 0
  /\ received = NothingReceived

LoadIdle ==
  /\ env = [arch |-> "none", pricing |-> "none", sow |-> "none",
            latestFetch |-> "ok", stepFetch |-> "ok", message |-> ""]
  /\ latestPc = "idle"
  /\ refreshPc = "idle"
  /\ stepFetch = "idle"
  /\ fetchFailures = 0
  /\ refreshes = 0
  /\ signed = {}

----------------------------------------------------------------------------
(* Specification of the classification: a steps list arrives, the screens  *)
(* classify it.                                                            *)

ClassifyInit ==
  /\ steps \in StepLists
  /\ binding = NoBinding
  /\ cpc = "input"
  /\ DashboardInit
  /\ RfpIdle
  /\ LoadIdle
  /\ RenderIdle
  /\ ClarIdle
  /\ route = "/results"
  /\ cache = Null
  /\ locationState = JUndef
  /\ LoggedIn

ClassifySteps ==
  /\ cpc = "input"
  /\ binding' = Classify(steps)
  /\ cpc' = "classified"
  /\ UNCHANGED <<steps, dashboardVars, roleVars, browserVars, sessionVars, rfpVars, loadVars,
                 renderVars, clarVars>>

ClassifyNext == ClassifySteps

SpecClassify == ClassifyInit /\ [][ClassifyNext]_vars

----------------------------------------------------------------------------
(* Specification of the upload screen: the Dashboard at /dashboard, its    *)
(* handleUpload and the processRFP call it awaits.                         *)

UploadInit ==
  /\ ClassifyIdle
  /\ DashboardInit
  /\ RfpIdle
  /\ LoadIdle
  /\ RenderIdle
  /\ ClarIdle
  /\ route = "/dashboard"
  /\ cache = Null
  /\ locationState = JUndef
  /\ LoggedIn

UploadNext ==
  \/ \E valid \in BOOLEAN : HandleFileSelect(valid)
  \/ HandleUpload
  \/ \E p \in {50, 100} : UploadProgress(p)
  \/ UploadDone
  \/ UploadFail
  \/ SimTick
  \/ \E result \in ResponsePool, stored \in BOOLEAN : LambdaResolve(result, stored)
  \/ \E message \in InvokeErrorMessages : LambdaReject(message)
  \/ NavigateDashboard

SpecUpload == UploadInit /\ [][UploadNext]_vars

----------------------------------------------------------------------------
(* Specification of the runs in flight: the uploads of a Dashboard and of  *)
(* the Dashboards mounted after the user went to the Chat screen and back. *)

InflightNext ==
  \/ \E valid \in BOOLEAN : HandleFileSelect(valid)
  \/ HandleUpload
  \/ UploadDone
  \/ UploadFail
  \/ \E result \in ResponsePool, stored \in BOOLEAN : LambdaResolve(result, stored)
  \/ NavigateDashboard
  \/ LeaveDashboard
  \/ ReturnDashboard
  \/ \E result \in ResponsePool, stored \in BOOLEAN : DetachedSettles(result, stored)

SpecInflight == UploadInit /\ [][InflightNext]_vars

----------------------------------------------------------------------------
(* Specification of the role loads: a Dashboard mounted with or without    *)
(* results (the Results screen, the upload screen), the store answering    *)
(* as env says.                                                            *)

RolesInit ==
  /\ ClassifyIdle
  /\ RfpIdle
  /\ RenderIdle
  /\ ClarIdle
  /\ selectedFile = FALSE
  /\ processing = FALSE
  /\ progress = NoProgress
  /\ error = ""
  /\ \E r \in ResultPool : DashboardMounted(r)
  /\ env \in Environments
  /\ refreshPc = "idle"
  /\ fetchFailures = 0
  /\ refreshes = 0
  /\ route = IF results = Null THEN "/dashboard" ELSE "/results"
  /\ cache = Null
  /\ locationState = JUndef
  /\ LoggedIn

RolesNext ==
  \/ StepFetchSettles
  \/ LatestArchitecture
  \/ LatestPricingLookup
  \/ LatestPricingFetch
  \/ LatestSow
  \/ RefreshClick
  \/ RefreshArchitecture
  \/ RefreshPricingLookup
  \/ RefreshPricingFetch
  \/ RefreshSow

SpecRoles == RolesInit /\ [][RolesNext]_vars

----------------------------------------------------------------------------
(* Specification of the downloads: a Dashboard mounted with or without     *)
(* results, its mount-time loads against a store that answers every call,  *)
(* and the download buttons.                                               *)

DownloadInit ==
  /\ RolesInit
  /\ env.arch = "none"
  /\ env.sow # "rejects"
  /\ env.latestFetch = "ok"
  /\ env.stepFetch = "ok"
  /\ env.message = ""

DownloadNext ==
  \/ StepFetchSettles
  \/ LatestArchitecture
  \/ LatestPricingLookup
  \/ LatestPricingFetch
  \/ LatestSow
  \/ \E n \in 1..MaxSteps : DownloadStep(n)
  \/ DownloadSow

SpecDownload == DownloadInit /\ [][DownloadNext]_vars

----------------------------------------------------------------------------
(* C1: classification binds each step record to at most one role: no step  *)
(* is at once the pricing, clarification, architecture or SOW step, also   *)
(* when pricing and clarification both fall back to the first .json step.  *)
C1_NoDoubleBinding ==
  cpc = "classified" =>
    \A r1, r2 \in Roles :
      (r1 # r2 /\ binding[r1] # 0) => binding[r1] # binding[r2]

----------------------------------------------------------------------------
ProcessReports == { i \in DOMAIN reports : reports[i].step = "process" }

\* the processRFP call has ended after its simulation was started
Exited == rfpPc = "idle" /\ outcome \in {"success", "invokeFailed"}

(* C6: when the pipeline call resolves, the process step is reported at    *)
(* 100%, on the failure path as on the success path, before the error is   *)
(* shown.                                                                  *)
C6_CompletionReports100 ==
  Exited => \E i \in ProcessReports : reports[i].progress = 100

(* C7: the progress values reported for the processing step never          *)
(* decrease, from the first simulated value to the ceiling or to the 100   *)
(* of completion, and no reported value exceeds 100.                       *)
C7_ProgressMonotone ==
  /\ \A i \in DOMAIN reports : reports[i].progress <= 100
  /\ \A i, j \in ProcessReports :
       i < j => reports[i].progress <= reports[j].progress

C7_Witness ==
  /\ outcome = "success"
  /\ \E i \in ProcessReports : reports[i] = Report("process", "Processing...", SimCeiling)
  /\ reports[Len(reports)] = Report("process", "Processing complete!", 100)

(* C8: on every exit of processRFP after the simulation was started, by    *)
(* success or by failure, the timer is cancelled, and from then on no      *)
(* simulated tick is delivered: nothing is reported after the exit.        *)
C8_TimerCancelled ==
  /\ [](Exited => simStopped /\ ~simTimer)
  /\ [][(Exited /\ rfpPc' = "idle") => reports' = reports]_vars

C8_Witness ==
  /\ outcome = "invokeFailed"
  /\ rfpPc = "idle"
  /\ simStopped
  /\ \E i \in ProcessReports : reports[i].progress > SimStart

\* the call the claim calls failed: an exception, or a response whose
\* statusCode is present and not 200
InvocationFailed(r) ==
  \/ r.type = "rejected"
  \/ r.type = "result" /\ r.result.statusCode # StatusAbsent
       /\ r.result.statusCode # 200

----------------------------------------------------------------------------
\* every load of the Dashboard has run to its end
LoadsSettled == latestPc = "done" /\ refreshPc = "idle" /\ stepFetch # "inflight"

(* C3: roles load independently: when a role's lookup or fetch fails,      *)
(* every other role with a resolvable artifact and a succeeding fetch      *)
(* still ends loaded, on the result-driven, mount-time and refresh paths.  *)
C3_RolesLoadIndependently ==
  LoadsSettled =>
    /\ (env.sow = "found" \/ EffectSowKey(results) # Empty) => sowKey # Empty
    /\ (env.arch = "found" \/ EffectArchitectureKey(results) # Empty)
         => architectureKey # Empty
    /\ ( \/ env.pricing = "found" /\ env.latestFetch = "ok"
         \/ EffectPricingKey(results) # Empty /\ env.stepFetch = "ok" )
         => pricingData # Null

(* C4: every failed artifact fetch of a role puts the role in its error    *)
(* state with a non-empty message, out of loading: none is swallowed.      *)
C4_FetchFailureSurfaced ==
  [][fetchFailures' # fetchFailures => (pricingError' # "" /\ ~pricingLoading')]_vars

----------------------------------------------------------------------------
(* Specification of the rendering: a payload arrives, the screens draw it *)

NormalizeInit ==
  /\ ClassifyIdle
  /\ DashboardInit
  /\ RfpIdle
  /\ LoadIdle
  /\ route = "/results"
  /\ cache = Null
  /\ locationState = JUndef
  /\ LoggedIn
  /\ ClarIdle
  /\ payload \in Payloads \cup ArchitecturePayloads
  /\ rendered = NotRendered
  /\ processed = NotProcessed
  /\ drawn = NotRendered

NormalizeNext ==
  \/ RenderPricing
  \/ ProcessClar
  \/ RenderArchitecture

SpecNormalize == NormalizeInit /\ [][NormalizeNext]_vars

\* C10: neither drawing the pricing section of a payload nor processing it
\* as clarifications ever throws, whatever JSON value the payload is
C10_NormalizeNeverThrows ==
  /\ rendered.view # "throws"
  /\ ~processed.threw

----------------------------------------------------------------------------
(* Specification of the Clarifications screen: it mounts with some        *)
(* results, the results may change while a call is waiting, the awaits    *)
(* settle in any order                                                    *)

ClarInit ==
  /\ ClassifyIdle
  /\ DashboardInit
  /\ RfpIdle
  /\ LoadIdle
  /\ RenderIdle
  /\ ClarIdle
  /\ route = "/clarifications"
  /\ cache = Null
  /\ locationState = JUndef
  /\ LoggedIn

ClarNext ==
  \/ \E r \in ResultPool : LoadClarifications(r)
  \/ \E k \in 1..MaxRuns, json \in ClarSamples : ClarFetchResolves(k, json)
  \/ \E k \in 1..MaxRuns, found \in BOOLEAN : ClarLookupResolves(k, found)
  \/ \E k \in 1..MaxRuns, message \in {"", "Failed to fetch JSON", "Access Denied"} :
       ClarRejects(k, message)

SpecClar == ClarInit /\ [][ClarNext]_vars

\* C2: when a loadClarifications call started for earlier results resumes
\* after the results changed, it leaves the questions, the error message
\* and the loading flag of the screen as they are
C2_StaleCompletionIgnored ==
  [][(resumed' # 0 /\ resumed' # curRun')
       => (questions' = questions /\ clarError' = clarError
             /\ clarLoading' = clarLoading)]_vars

\* C5: when the current results bind no clarification step and no stored
\* file is found, the screen shows no error message and is not loading
C5_UnresolvedIsEmptyNotError ==
  \A k \in 1..MaxRuns :
    (k = curRun /\ loaders[k].how = "nothing")
      => (clarError = "" /\ ~clarLoading)

\* C11: an architecture payload whose architecture_diagram lacks the
\* proposal, the diagram, the project_info or the architecture is drawn as
\* 'no data', and drawing it does not fail
C11_ArchitectureDegrades ==
  LET diagram == Get(payload, "architecture_diagram")
      incomplete == \/ IsNullish(Get(diagram, "proposal"))
                    \/ IsNullish(Get(diagram, "diagram"))
                    \/ IsNullish(Get(Get(diagram, "proposal"), "project_info"))
                    \/ IsNullish(Get(Get(diagram, "proposal"), "architecture"))
  IN (drawn.view # "pending" /\ JTruthy(diagram) /\ incomplete)
       => drawn.view = "nodata"

----------------------------------------------------------------------------
(* Specification of the result cache: uploads write it through, the        *)
(* Clarifications and Results screens read it when they mount.             *)

CacheInit ==
  /\ ClassifyIdle
  /\ DashboardInit
  /\ RfpIdle
  /\ LoadIdle
  /\ RenderIdle
  /\ ClarIdle
  /\ route = "/dashboard"
  /\ cache \in {Null} \cup { PlainText(t) : t \in StoredTexts }
  /\ locationState = JUndef
  /\ LoggedIn

CacheNext ==
  \/ \E r \in CachedResultPool, stored \in BOOLEAN : WriteThrough(r, stored)
  \/ \E path \in {"/dashboard", "/clarifications", "/results"} : Visit(path)
  \/ ClassifySteps

SpecCache == CacheInit /\ [][CacheNext]_vars

----------------------------------------------------------------------------
(* Specification of Continue to Results: runs that end on the              *)
(* Clarifications screen, Continue and its timer, and the ways away from   *)
(* the screen and back.                                                    *)

\* the results of the runs: those with a steps list of their own or a body
\* that was left a string
ContinuePool == { r \in CachedResultPool : Get(r, "body").t # "object" }

ContinueInit ==
  /\ CacheInit
  /\ cache = Null

ContinueNext ==
  \/ \E r \in ContinuePool, stored \in BOOLEAN : WriteThrough(r, stored)
  \/ \E path \in {"/dashboard", "/clarifications", "/results"} : Visit(path)
  \/ \E stored \in BOOLEAN : HandleContinue(stored)
  \/ ContinueTimer

SpecContinue == ContinueInit /\ [][ContinueNext]_vars

----------------------------------------------------------------------------
(* Specification of the session: page loads, navigation, the Login form    *)
(* and Logout.                                                             *)

LoginInit ==
  /\ ClassifyIdle
  /\ DashboardInit
  /\ RfpIdle
  /\ LoadIdle
  /\ RenderIdle
  /\ ClarIdle
  /\ route = "/login"
  /\ cache = Null
  /\ locationState = JUndef
  /\ user = Null
  /\ email = ""
  /\ loginError = ""

LoginNext ==
  \/ \E path \in {"/", "/login", "/dashboard", "/clarifications", "/results",
                   "/chat"}, reload \in BOOLEAN : Go(path, reload)
  \/ \E e \in EmailPool : TypeEmail(e)
  \/ HandleSubmit
  \/ HandleLogout

SpecLogin == LoginInit /\ [][LoginNext]_vars

\* C12: every successful pipeline invocation leaves its own result in the
\* cache slot, whatever the slot held before
C12_CacheHoldsLatestResult ==
  [][(rfpPc = "invoking" /\ outcome' = "success")
       => cache' = JsonText(results')]_vars

C14_RoundTripClassifiesAlike ==
  (/\ route = "/results"
   /\ cpc = "classified"
   /\ ~JTruthy(locationState)
   /\ received.type = "result"
   /\ cache = PlainText(Stringify(received.result)))
    => binding = Classify(ResultSteps(received.result))

C14_Witness ==
  /\ route = "/results"
  /\ cpc = "classified"
  /\ locationState = JUndef
  /\ LoggedIn
  /\ received.type = "result"
  /\ cache = PlainText(Stringify(received.result))
  /\ Get(received.result, "note") = JStr("a \\ b")
  /\ binding["sow"] = 1

\* C15: in the tabular view each row's total is the first of total,
\* extendedPrice and amount that is not null, else quantity times unit
\* price, and the grand total shown is the sum of the row totals shown
C15_GrandTotalIsSumOfRows ==
  LET items == PricingItems(payload).items
      rows == rendered.rows
      first(it) == Coalesce(Get(it, "total"),
                     Coalesce(Get(it, "extendedPrice"), Get(it, "amount")))
      RECURSIVE Sum(_)
      Sum(n) == IF n = 0 THEN JNum(0)
                ELSE Plus(Sum(n - 1), CurrencyAmount(rows[n].total))
  IN rendered.view = "tabular" =>
       /\ \A i \in DOMAIN rows :
            rows[i].total =
              IF IsNullish(first(items[i]))
                THEN Times(ToNumber(rows[i].quantity), ToNumber(rows[i].unitPrice))
                ELSE first(items[i])
       /\ CurrencyAmount(rendered.grandTotal) = Sum(Len(rows))

\* C16: a clarification payload that is an object with no questions array
\* and no clarifications array gives one question per top-level key, in
\* the order of the keys, each reading "key: value"
C16_OnePseudoQuestionPerKey ==
  LET keys == ObjectKeys(payload)
      value(k) == Get(payload, k)
      text(v) == IF v.t = "string" THEN v.s ELSE Stringify(v)
  IN (/\ "pending" \notin DOMAIN processed
      /\ payload.t = "object"
      /\ ~IsArray(Get(payload, "questions"))
      /\ ~IsArray(Get(payload, "clarifications")))
       => /\ ~processed.threw
          /\ Len(processed.qList) = Len(payload.entries)
          /\ Len(keys) = Len(payload.entries)
          /\ \A i \in DOMAIN processed.qList :
               processed.qList[i] = JStr(keys[i] \o ": " \o text(value(keys[i])))

C16_Witness ==
  /\ payload = JObj(<< <<"foo", JStr("bar")>> >>)
  /\ processed = [threw |-> FALSE, qList |-> << JStr("foo: bar") >>]

\* C17: a user is set only by a submit of the Login form whose email ends
\* in @hcltech.com after a non-empty local part with no whitespace and no
\* '@', and while no user is set no protected screen is shown
C17_OnlyValidLoginOpensSession ==
  /\ [](user = Null =>
          route \notin {"/dashboard", "/clarifications", "/results", "/chat"})
  /\ [][(user' # user /\ user' # Null)
         => /\ route = "/login"
            /\ user = Null
            /\ user'.email = email
            /\ Len(email) > Len("@hcltech.com")
            /\ EndsWith(email, "@hcltech.com")
            /\ \A i \in 1..(Len(email) - Len("@hcltech.com")) :
                 SubSeq(email, i, i) \notin {" ", "\t", "\n", "@"}]_vars

C17_Witness ==
  /\ user = [email |-> "b.c@hcltech.com"]
  /\ route = "/chat"

\* C18: pricing binds the first step whose output ends in .json and whose
\* name mentions pricing or whose output mentions pricing or price; when
\* there is none, the first .json step that no other role has bound; and
\* nothing when there is no such step
C18_PricingBinding ==
  LET name(i) == ToLower(OrEmpty(steps[i].step))
      out(i) == ToLower(OrEmpty(steps[i].output))
      named == { i \in DOMAIN steps :
                   /\ EndsWith(out(i), ".json")
                   /\ (Includes(name(i), "pricing") \/ Includes(out(i), "pricing")
                         \/ Includes(out(i), "price")) }
      taken == { binding[r] : r \in Roles \ {"pricing"} }
      free == { i \in DOMAIN steps : EndsWith(out(i), ".json") /\ i \notin taken }
  IN cpc = "classified" =>
       binding["pricing"] = IF named # {} THEN FirstIndex(named) ELSE FirstIndex(free)

\* C19: the architecture views bind the first step whose output ends in
\* .png or .json and whose name or output mentions architecture or
\* diagram, whatever the case of the letters, and no other step
C19_ArchitectureBinding ==
  LET name(i) == ToLower(OrEmpty(steps[i].step))
      out(i) == ToLower(OrEmpty(steps[i].output))
      matching == { i \in DOMAIN steps :
                      /\ EndsWith(out(i), ".png") \/ EndsWith(out(i), ".json")
                      /\ (Includes(name(i), "architecture") \/ Includes(name(i), "diagram")
                            \/ Includes(out(i), "architecture")
                            \/ Includes(out(i), "diagram")) }
  IN cpc = "classified" =>
       {binding["architecture"], binding["diagram"]} \ {0}
         = (IF matching = {} THEN {} ELSE {FirstIndex(matching)})

\* C20: SOW binds the first step whose output ends in .docx or .pdf and
\* whose name or output mentions sow or statement of work; when there is
\* none, the first step whose output ends in .docx or .pdf
C20_SowBinding ==
  LET name(i) == ToLower(OrEmpty(steps[i].step))
      out(i) == ToLower(OrEmpty(steps[i].output))
      docs == { i \in DOMAIN steps : EndsWith(out(i), ".docx") \/ EndsWith(out(i), ".pdf") }
      named == { i \in docs :
                   \/ Includes(name(i), "sow") \/ Includes(name(i), "statement of work")
                   \/ Includes(out(i), "sow") \/ Includes(out(i), "statement of work") }
  IN cpc = "classified" =>
       binding["sow"] = IF named # {} THEN FirstIndex(named) ELSE FirstIndex(docs)

\* C21: clarification binds the first step whose output ends in .json and
\* whose name or output mentions clarification; when there is none, the
\* first .json step that no other role has bound; a step without an
\* output is never bound
C21_ClarificationBinding ==
  LET name(i) == ToLower(OrEmpty(steps[i].step))
      out(i) == ToLower(OrEmpty(steps[i].output))
      named == { i \in DOMAIN steps :
                   /\ EndsWith(out(i), ".json")
                   /\ (Includes(name(i), "clarification")
                         \/ Includes(out(i), "clarification")) }
      taken == { binding[r] : r \in Roles \ {"clarification"} }
      free == { i \in DOMAIN steps : EndsWith(out(i), ".json") /\ i \notin taken }
  IN cpc = "classified" =>
       /\ binding["clarification"] =
            IF named # {} THEN FirstIndex(named) ELSE FirstIndex(free)
       /\ \A r \in Roles : binding[r] # 0 => Truthy(steps[binding[r]].output)


----------------------------------------------------------------------------
(* C22: the pricing view is chosen by ordered probes                       *)

\* the rows the generic table draws from an array
RowsOf(arr) == [i \in DOMAIN arr.items |-> PricingRow(arr.items[i], i)]

----------------------------------------------------------------------------
(* C23: who writes the result cache                                        *)

\* C23: the result stored in the cache changes only in a step of the
\* success path of a pipeline invocation (handleUpload's write-through);
\* no visit, continue or timer step changes it
C23_OnlySuccessPathWritesCache ==
  [][CachedResults(JUndef, cache') # CachedResults(JUndef, cache)
       => \E r \in ContinuePool, stored \in BOOLEAN : WriteThrough(r, stored)]_vars


----------------------------------------------------------------------------
(* C24: when signed links are requested                                    *)

\* C24: every signed link requested so far was requested by a download
\* button: none by the mount, by the arrival of results or by a refresh
C24_SignedLinkOnlyOnDownload ==
  \A s \in signed : s.on = "download"


----------------------------------------------------------------------------
(* C25: the values the simulation reports                                  *)

\* the progress values startSimulatedProgress has handed to onTick in this
\* processRFP call, in order
SimReports ==
  LET sim == SelectSeq(reports, LAMBDA r : r.message = "Processing...")
  IN [i \in DOMAIN sim |-> sim[i].progress]

\* C25: the simulation's first value is its floor, every value lies between
\* the floor and the ceiling (so none is 100), every step from one value to
\* the next lies between minStep and maxStep, and no step is larger than
\* the step before it
C25_SimulationShrinksToCeiling ==
  LET v == SimReports
      step(i) == v[i + 1] - v[i]
  IN /\ v # <<>> => v[1] = SimStart
     /\ \A i \in DOMAIN v : SimStart <= v[i] /\ v[i] <= SimCeiling /\ v[i] # 100
     /\ \A i \in 1..(Len(v) - 1) : SimMinStep <= step(i) /\ step(i) <= SimMaxStep
     /\ \A i \in 1..(Len(v) - 2) : step(i + 1) <= step(i)

\* the simulation has run from its floor to its ceiling, its step shrinking
\* on the way
C25_Witness ==
  LET v == SimReports
  IN /\ Len(v) > 2
     /\ v[1] = SimStart
     /\ v[Len(v)] = SimCeiling
     /\ v[2] - v[1] = SimMaxStep
     /\ v[Len(v)] - v[Len(v) - 1] = SimMinStep


----------------------------------------------------------------------------
(* C26: pipeline invocations in flight                                     *)

\* the handleUpload runs that are awaiting processRFP
InFlight == detached + (IF rfpPc # "idle" THEN 1 ELSE 0)

\* C26: at most one pipeline invocation is in flight: no run is started
\* while another is pending
C26_OneInvocationInFlight ==
  InFlight <= 1


----------------------------------------------------------------------------
(* C27: a result with no steps                                             *)

\* C27: for a displayed result whose steps list is empty the summary reports
\* 0 steps completed and an estimate derived from 0 steps, and the results
\* effect resolves no role
C27_EmptyStepsReportZero ==
  (/\ results # Null
   /\ (results.body.type = "object" /\ results.body.object.hasSteps) \/ results.hasSteps
   /\ StepsOf(results) = <<>>) =>
    /\ StepsCompleted(results) = 0
    /\ EstimatedTime(results) = 0
    /\ EffectSowKey(results) = Empty
    /\ EffectArchitectureKey(results) = Empty
    /\ EffectPricingKey(results) = Empty


----------------------------------------------------------------------------
(* C28: the download listing                                               *)

\* C28: the download listing of the displayed result is, in step order, the
\* steps that have an output and whose lowercased name does not contain
\* 'parsing'; no step without an output is listed
C28_ListingSkipsOnlyParsing ==
  results # Null =>
    LET ss == StepsOf(results)
        expected == { i \in DOMAIN ss : /\ Truthy(ss[i].output)
                                        /\ ~Includes(ToLower(OrEmpty(ss[i].step)),
                                                     "parsing") }
        listing == DownloadListing(results)
    IN /\ { listing[n] : n \in DOMAIN listing } = expected
       /\ \A n \in 1..(Len(listing) - 1) : listing[n] < listing[n + 1]


----------------------------------------------------------------------------
(* C29: the artifacts shown with a result                                  *)

\* C29: while a result is displayed, the SOW key and the architecture key
\* are the ones the results effect derives from its steps, and the pricing
\* data, once loaded, is that of its pricing step: no mount-time load and no
\* Refresh Files puts another file in their place
C29_ShownArtifactsAreTheResults ==
  results # Null =>
    /\ sowKey = EffectSowKey(results)
    /\ architectureKey = EffectArchitectureKey(results)
    /\ pricingData \in {Null, Data(EffectPricingKey(results))}


----------------------------------------------------------------------------
(* C30: the delayed navigation of Continue to Results                      *)

\* C30: at most one navigation to /results is pending at a time, and a
\* pending navigation fires only while the Clarifications screen that was
\* continued is still shown: never after the user has left it
C30_PendingNavigationDiesWithScreen ==
  /\ [](Len(navTimers) <= 1)
  /\ [][navTimers # <<>> /\ navTimers' = Tail(navTimers)
          => route = "/clarifications" /\ continuing]_vars

====
